---- MODULE Spec2Model ----
(***************************************************************************)
(* A model of the event-registration information extraction pipeline:      *)
(* HybridNamedEntityExtractor (Name_Entity_Recogniztion.py),               *)
(* AdvancedInformationProcessor (info_processing.py),                      *)
(* ComprehensiveExtractionEngine (extraction_engine.py) and the data model *)
(* (data_model.py).                                                        *)
(*                                                                         *)
(* Strings of the program are sequences of one-character strings, so that  *)
(* slicing, lower-casing and substring search are computed, not assumed.   *)
(***************************************************************************)
EXTENDS Integers, Sequences, FiniteSets, TLC

VARIABLES
    entities,          \* resolver: the caller's list object handed to _removeDuplicatesAndOverlaps
    cleaned,           \* resolver: the list object the first call returned (NoResult before it)
    firstResult,       \* resolver: the value of that list at the moment it was returned
    rerun,             \* resolver: the list returned when the resolver is run on `cleaned`
    resolverCalls,     \* resolver: number of calls made so far
    scorerText,        \* scorer: the text passed to _enhanceWithContext
    scored,            \* scorer: the entity list passed to it, whose entities it mutates
    confidences,       \* scorer: the entities' confidences, initially and after each application
    contextScores,     \* scorer: the contextScore of each entity in each application
    aggregated,        \* aggregator: the record passed to _calculateOverallConfidence
    overall,           \* aggregator: the confidence it returned (NoResult before the call)
    toMerge,           \* merger: the entity list passed to mergeEntities
    merged,            \* merger: the list it returned (NoResult before the call)
    pc,                \* concurrent runs: each client's position in extractInformation
    loaded,            \* concurrent runs: the counter value each client read for its pending += 1
    request,           \* concurrent runs: each client's text and what its pipeline run computes
    entityArgs,        \* entity: the arguments passed to ExtractedEntity(...)
    constructed,       \* entity: how the construction ended (NoResult before it)
    formatter,         \* formatter: which of the four _cleanAndFormat* methods is called
    unformatted,       \* formatter: the value passed to it
    formatted,         \* formatter: what it returned (NoResult before the call)
    reformatted,       \* formatter: what it returned for `formatted` (NoResult before that call)
    selectType,        \* selector: the entity type whose _selectBest*Entity method is called
    candidates,        \* selector: the entities of that type passed to it
    selection,         \* selector: the entity it returned, as an Optional (NoResult before the call)
    processorText,     \* processor: the originalText passed to processExtractedEntities
    toProcess,         \* processor: the entity list passed to it
    infoAfter,         \* processor: the record after the primary pass and the record returned (NoResult before the call)
    resultCache,       \* service: self.resultCache, its items in insertion order
    serviceLastError,  \* service: self.lastError
    issued,            \* service: how many requests of the client's list have been made since the start or the last reset
    lastHit,           \* service: the key of the most recent request answered from the cache, as an Optional
    serviceCall,       \* service: the last call and what it returned
    pipelineConfig,    \* engine: self.pipelineConfig
    metrics,           \* engine: self.metrics
    processingHistory, \* engine: self.processingHistory
    extractorState,    \* extractor: _extractionCount, _successfulExtractions, _lastError
    lastCall           \* the caller: the last call made, with what it returned or raised

resolverVars == <<entities, cleaned, firstResult, rerun, resolverCalls>>
scorerVars == <<scorerText, scored, confidences, contextScores>>
aggregatorVars == <<aggregated, overall>>
mergerVars == <<toMerge, merged>>
concurrentVars == <<pc, loaded, request>>
entityVars == <<entityArgs, constructed>>
formatterVars == <<formatter, unformatted, formatted, reformatted>>
selectorVars == <<selectType, candidates, selection>>
processorVars == <<processorText, toProcess, infoAfter>>
serviceVars == <<resultCache, serviceLastError, issued, lastHit, serviceCall>>
engineVars == <<pipelineConfig, metrics, processingHistory, extractorState, lastCall>>

vars == <<resolverVars, scorerVars, aggregatorVars, mergerVars, concurrentVars, entityVars,
          formatterVars, selectorVars, processorVars, serviceVars, engineVars>>

\* What each specification leaves alone.
exceptResolver == <<scorerVars, aggregatorVars, mergerVars, concurrentVars, entityVars,
                    formatterVars, selectorVars, processorVars, serviceVars, engineVars>>
exceptScorer == <<resolverVars, aggregatorVars, mergerVars, concurrentVars, entityVars,
                  formatterVars, selectorVars, processorVars, serviceVars, engineVars>>
exceptAggregator == <<resolverVars, scorerVars, mergerVars, concurrentVars, entityVars,
                      formatterVars, selectorVars, processorVars, serviceVars, engineVars>>
exceptMerger == <<resolverVars, scorerVars, aggregatorVars, concurrentVars, entityVars,
                  formatterVars, selectorVars, processorVars, serviceVars, engineVars>>
exceptConcurrent == <<resolverVars, scorerVars, aggregatorVars, mergerVars, entityVars,
                      formatterVars, selectorVars, processorVars, serviceVars, engineVars>>
exceptEntity == <<resolverVars, scorerVars, aggregatorVars, mergerVars, concurrentVars,
                  formatterVars, selectorVars, processorVars, serviceVars, engineVars>>
exceptFormatter == <<resolverVars, scorerVars, aggregatorVars, mergerVars, concurrentVars,
                     entityVars, selectorVars, processorVars, serviceVars, engineVars>>
exceptSelector == <<resolverVars, scorerVars, aggregatorVars, mergerVars, concurrentVars,
                    entityVars, formatterVars, processorVars, serviceVars, engineVars>>
exceptProcessor == <<resolverVars, scorerVars, aggregatorVars, mergerVars, concurrentVars,
                     entityVars, formatterVars, selectorVars, serviceVars, engineVars>>
exceptService == <<resolverVars, scorerVars, aggregatorVars, mergerVars, concurrentVars,
                   entityVars, formatterVars, selectorVars, processorVars, engineVars>>
exceptEngine == <<resolverVars, scorerVars, aggregatorVars, mergerVars, concurrentVars,
                  entityVars, formatterVars, selectorVars, processorVars, serviceVars>>
exceptEngineAndConcurrent == <<resolverVars, scorerVars, aggregatorVars, mergerVars,
                               entityVars, formatterVars, selectorVars, processorVars,
                               serviceVars>>
exceptEngineAndService == <<resolverVars, scorerVars, aggregatorVars, mergerVars,
                            concurrentVars, entityVars, formatterVars, selectorVars,
                            processorVars>>

NoResult == "NoResult"

(***************************************************************************)
(* data_model.py                                                           *)
(***************************************************************************)

\* The members of ExtractionConfidence, in declaration order.
ExtractionConfidence == {"HIGH", "MEDIUM", "LOW", "UNKNOWN"}

\* Enum member -> its .value, a Python str, as the sequence of its code points.
ExtractionConfidenceValue ==
    [c \in ExtractionConfidence |->
        CASE c = "HIGH"    -> <<72, 73, 71, 72>>
          [] c = "MEDIUM"  -> <<77, 69, 68, 73, 85, 77>>
          [] c = "LOW"     -> <<76, 79, 87>>
          [] c = "UNKNOWN" -> <<85, 78, 75, 78, 79, 87, 78>>]

\* Python's ">" on two str values: lexicographic on code points, a proper
\* prefix being the smaller.
RECURSIVE StrGreater(_, _)
StrGreater(a, b) ==
    IF a = <<>> THEN FALSE
    ELSE IF b = <<>> THEN TRUE
    ELSE IF Head(a) # Head(b) THEN Head(a) > Head(b)
    ELSE StrGreater(Tail(a), Tail(b))

\* The members of EntityType.
EntityType == {"PERSON", "EVENT", "LOCATION", "DATE", "ORGANIZATION"}

(***************************************************************************)
(* Python str operations, on sequences of one-character strings.           *)
(***************************************************************************)

\* A str literal as the sequence of its characters.
\* The sequence with the elements of f, as an explicit tuple.
SeqOf(f) == f \o <<>>

Chars(literal) == SeqOf([i \in 1..Len(literal) |-> SubSeq(literal, i, i)])

LowerLetters == Chars("abcdefghijklmnopqrstuvwxyz")
UpperLetters == Chars("ABCDEFGHIJKLMNOPQRSTUVWXYZ")

UpperSet == {UpperLetters[i] : i \in 1..Len(UpperLetters)}
LowerSet == {LowerLetters[i] : i \in 1..Len(LowerLetters)}

UpperToLower ==
    [c \in UpperSet |-> LowerLetters[CHOOSE i \in 1..Len(UpperLetters) : UpperLetters[i] = c]]

\* str.lower()
StrLower(str) ==
    SeqOf([i \in 1..Len(str) |-> IF str[i] \in UpperSet THEN UpperToLower[str[i]] ELSE str[i]])

Max(a, b) == IF a >= b THEN a ELSE b
Min(a, b) == IF a <= b THEN a ELSE b

\* str[start:end] for 0 <= start, 0 <= end: offsets are 0-based, end excluded,
\* both clamped to the length.
Slice(str, start, end) == SubSeq(str, Min(start, Len(str)) + 1, Min(end, Len(str)))

\* sub in str
Contains(sub, str) ==
    \E i \in 0..(Len(str) - Len(sub)) : \A j \in 1..Len(sub) : str[i + j] = sub[j]

\* c * n
RECURSIVE Repeat(_, _)
Repeat(c, n) == IF n <= 0 THEN <<>> ELSE <<c>> \o Repeat(c, n - 1)

\* str.upper()
LowerToUpper ==
    [c \in LowerSet |-> UpperLetters[CHOOSE i \in 1..Len(LowerLetters) : LowerLetters[i] = c]]

StrUpper(str) ==
    SeqOf([i \in 1..Len(str) |-> IF str[i] \in LowerSet THEN LowerToUpper[str[i]] ELSE str[i]])

\* The characters of the model's texts: ASCII letters, digits, white space and
\* punctuation.
DigitSet == {"0", "1", "2", "3", "4", "5", "6", "7", "8", "9"}
SpaceSet == {" ", "\t", "\n", "\r", "\f"}
PunctuationSet ==
    LET p == Chars("!\"#$%&'()*+,-./:;<=>?@[\\]^_{|}~") IN {p[i] : i \in 1..Len(p)}
Alphabet == UpperSet \cup LowerSet \cup DigitSet \cup SpaceSet \cup PunctuationSet

\* str.isupper() / str.islower(): some cased character, and none of the other case.
IsUpper(str) ==
    /\ \E i \in 1..Len(str) : str[i] \in UpperSet
    /\ \A i \in 1..Len(str) : str[i] \notin LowerSet

IsLower(str) ==
    /\ \E i \in 1..Len(str) : str[i] \in LowerSet
    /\ \A i \in 1..Len(str) : str[i] \notin UpperSet

\* str.isalpha()
IsAlpha(str) ==
    str # <<>> /\ \A i \in 1..Len(str) : str[i] \in UpperSet \cup LowerSet

\* str.capitalize(): first character upper-cased, the rest lower-cased.
Capitalize(str) ==
    IF str = <<>> THEN str ELSE StrUpper(<<Head(str)>>) \o StrLower(Tail(str))

\* The length of the run of characters of S that starts at offset i.
RunLength(text, i, S) ==
    CHOOSE n \in 0..(Len(text) - i) :
        /\ n = Len(text) - i \/ text[i + n + 1] \notin S
        /\ \A j \in 1..n : text[i + j] \in S

\* The length of the run of characters of S that ends at offset i.
RunLengthBack(text, i, S) ==
    CHOOSE n \in 0..i :
        /\ n = i \/ text[i - n] \notin S
        /\ \A j \in 1..n : text[i - j + 1] \in S

\* str.strip()
LStrip(str) == SubSeq(str, RunLength(str, 0, SpaceSet) + 1, Len(str))
RStrip(str) == SubSeq(str, 1, Len(str) - RunLengthBack(str, Len(str), SpaceSet))
Strip(str) == RStrip(LStrip(str))

\* The elements of a set of integers in increasing order.
Ascending(S) ==
    SeqOf([k \in 1..Cardinality(S) |-> CHOOSE x \in S : Cardinality({y \in S : y < x}) = k - 1])

\* str.split(): the maximal runs of non-whitespace characters, in order.
Split(str) ==
    LET starts == Ascending({i \in 1..Len(str) :
                                /\ str[i] \notin SpaceSet
                                /\ i = 1 \/ str[i - 1] \in SpaceSet})
    IN SeqOf([k \in 1..Len(starts) |->
           SubSeq(str, starts[k],
                  starts[k] - 1 + RunLength(str, starts[k] - 1, Alphabet \ SpaceSet))])

\* str.split(sep) for a one-character sep: every piece, empty ones included.
SplitOn(str, sep) ==
    LET cuts == Ascending({i \in 1..Len(str) : str[i] = sep})
    IN SeqOf([k \in 1..(Len(cuts) + 1) |->
           SubSeq(str, IF k = 1 THEN 1 ELSE cuts[k - 1] + 1,
                       IF k > Len(cuts) THEN Len(str) ELSE cuts[k] - 1)])

\* sep.join(list)
RECURSIVE Join(_, _)
Join(sep, list) ==
    IF list = <<>> THEN <<>>
    ELSE IF Len(list) = 1 THEN list[1]
    ELSE list[1] \o sep \o Join(sep, Tail(list))

\* Optional[str]: None, or the one value.
None == <<>>
Some(value) == <<value>>

\* bool(x) for an Optional[str]: neither None nor the empty string.
Truthy(optional) == optional # None /\ optional[1] # <<>>

(***************************************************************************)
(* Python's re module: patterns as syntax trees, matched by backtracking   *)
(* in the order sre tries the alternatives, so that the first match found  *)
(* is the one re returns. Offsets are 0-based, as in match.start().        *)
(***************************************************************************)

WordSet == UpperSet \cup LowerSet \cup DigitSet \cup {"_"}

\* Pattern syntax: a pattern is the sequence of its nodes. Lit("ab") is the
\* literal ab, Set(S) one character of S ([...], \d, \s, \w, .), Cat and Alt
\* take the sequence of their parts, Grp(n, r) is the n-th capturing group.
Lit(str) == <<[op |-> "lit", str |-> Chars(str), ignoreCase |-> FALSE]>>
Set(S) == <<[op |-> "set", set |-> S]>>
RECURSIVE Cat(_)
Cat(rs) == IF rs = <<>> THEN <<>> ELSE Head(rs) \o Cat(Tail(rs))
Alt(rs) == <<[op |-> "alt", rs |-> rs]>>
Grp(n, r) == <<[op |-> "grp", n |-> n, r |-> r]>>
WordB == <<[op |-> "wordb"]>>
Bos == <<[op |-> "bos"]>>
Eos == <<[op |-> "eos"]>>

\* r{min,max}, r{min,}, r*, r+, r? and the lazy form of each. `from` is the
\* offset at which the iteration before this one started.
Rep(r, min, max) ==
    <<[op |-> "rep", r |-> r, min |-> min, max |-> max, bounded |-> TRUE, greedy |-> TRUE,
       from |-> -1]>>
AtLeast(r, min) ==
    <<[op |-> "rep", r |-> r, min |-> min, max |-> 0, bounded |-> FALSE, greedy |-> TRUE,
       from |-> -1]>>
Star(r) == AtLeast(r, 0)
Plus(r) == AtLeast(r, 1)
Opt(r) == Rep(r, 0, 1)
Lazy(rep) == <<[rep[1] EXCEPT !.greedy = FALSE]>>

\* Character classes.
AnyChar == Alphabet \ {"\n"}
Not(S) == Alphabet \ S

\* A set of characters closed under case, as re.IGNORECASE reads a class.
BothCases(S) ==
    S \cup {LowerToUpper[c] : c \in S \cap LowerSet} \cup {UpperToLower[c] : c \in S \cap UpperSet}

\* The pattern compiled with re.IGNORECASE.
RECURSIVE IgnoreCase(_)
IgnoreCase(r) ==
    SeqOf([k \in 1..Len(r) |->
        CASE r[k].op = "lit" -> [r[k] EXCEPT !.ignoreCase = TRUE]
          [] r[k].op = "set" -> [r[k] EXCEPT !.set = BothCases(@)]
          [] r[k].op = "alt" -> [r[k] EXCEPT !.rs = [j \in 1..Len(@) |-> IgnoreCase(@[j])]]
          [] r[k].op \in {"grp", "rep"} -> [r[k] EXCEPT !.r = IgnoreCase(@)]
          [] OTHER -> r[k]])

NoMatch == [ok |-> FALSE]

\* A literal at offset i.
LitAt(node, text, i) ==
    /\ i + Len(node.str) <= Len(text)
    /\ \A j \in 1..Len(node.str) :
          \/ text[i + j] = node.str[j]
          \/ node.ignoreCase /\ StrLower(<<text[i + j]>>) = StrLower(<<node.str[j]>>)

\* \b at offset i: a word character on exactly one side.
WordBoundaryAt(text, i) ==
    (i >= 1 /\ text[i] \in WordSet) # (i < Len(text) /\ text[i + 1] \in WordSet)

\* $ at offset i: the end, or just before a final newline.
EndAt(text, i) ==
    i = Len(text) \/ (i = Len(text) - 1 /\ text[Len(text)] = "\n")

\* The concatenation of seqs[lo], ..., seqs[hi].
RECURSIVE Flatten(_, _, _)
Flatten(seqs, lo, hi) ==
    IF lo > hi THEN <<>>
    ELSE IF lo = hi THEN seqs[lo]
    ELSE Flatten(seqs, lo, (lo + hi) \div 2) \o Flatten(seqs, ((lo + hi) \div 2) + 1, hi)

\* The first way, in sre's order, to match the nodes of `todo` one after the
\* other from offset i; groups holds the span of each group closed so far.
\* The alternatives of an alternation are tried in their order (FirstOf). A
\* repetition of a character class tries its counts one after the other
\* (TryCounts): from the longest run down when greedy, from the shortest up
\* when lazy: the first count, then the first half of the others, then the
\* second half. An
\* iteration of a repetition that consumed nothing ends the repetition.
\* The largest count a repetition of a character class can take at offset i.
Most(text, i, rep) ==
    LET run == RunLength(text, i, rep.r[1].set)
    IN IF rep.bounded /\ rep.max < run THEN rep.max ELSE run

RECURSIVE Match(_, _, _, _), FirstOf(_, _, _, _, _, _, _), TryCounts(_, _, _, _, _, _, _)
Match(text, todo, i, groups) ==
    CASE todo = <<>> -> [ok |-> TRUE, end |-> i, groups |-> groups]
      [] todo[1].op = "lit" /\ LitAt(todo[1], text, i) ->
            Match(text, Tail(todo), i + Len(todo[1].str), groups)
      [] todo[1].op = "set" /\ i < Len(text) /\ text[i + 1] \in todo[1].set ->
            Match(text, Tail(todo), i + 1, groups)
      [] todo[1].op = "alt" /\ todo[1].rs # <<>> ->
            FirstOf(text, todo[1].rs, 1, Len(todo[1].rs), Tail(todo), i, groups)
      [] todo[1].op = "grp" ->
            Match(text, todo[1].r \o <<[op |-> "close", n |-> todo[1].n, start |-> i]>>
                        \o Tail(todo), i, groups)
      [] todo[1].op = "close" ->
            Match(text, Tail(todo), i,
                  [n \in DOMAIN groups \cup {todo[1].n} |->
                      IF n = todo[1].n THEN <<todo[1].start, i>> ELSE groups[n]])
      [] /\ todo[1].op = "rep" /\ Len(todo[1].r) = 1 /\ todo[1].r[1].op = "set"
         /\ Most(text, i, todo[1]) >= todo[1].min ->
            TryCounts(text, Tail(todo), i,
                      IF todo[1].greedy THEN Most(text, i, todo[1]) ELSE todo[1].min,
                      IF todo[1].greedy THEN todo[1].min ELSE Most(text, i, todo[1]),
                      IF todo[1].greedy THEN -1 ELSE 1, groups)
      [] todo[1].op = "rep" /\ Len(todo[1].r) = 1 /\ todo[1].r[1].op = "set" -> NoMatch
      [] todo[1].op = "rep" /\ todo[1].min > 0 ->
            Match(text, todo[1].r \o <<[todo[1] EXCEPT !.min = @ - 1, !.max = @ - 1]>>
                        \o Tail(todo), i, groups)
      [] todo[1].op = "rep" /\ todo[1].bounded /\ todo[1].max <= 0 ->
            Match(text, Tail(todo), i, groups)
      [] todo[1].op = "rep" /\ i # todo[1].from ->
            LET again == [todo[1] EXCEPT !.max = @ - 1, !.from = i]
                more == Match(text, todo[1].r \o <<again>> \o Tail(todo), i, groups)
                stop == Match(text, Tail(todo), i, groups)
            IN IF todo[1].greedy
               THEN (IF more.ok THEN more ELSE stop)
               ELSE (IF stop.ok THEN stop ELSE more)
      [] todo[1].op = "wordb" /\ WordBoundaryAt(text, i) ->
            Match(text, Tail(todo), i, groups)
      [] todo[1].op = "bos" /\ i = 0 -> Match(text, Tail(todo), i, groups)
      [] todo[1].op = "eos" /\ EndAt(text, i) -> Match(text, Tail(todo), i, groups)
      [] OTHER -> NoMatch

FirstOf(text, rs, lo, hi, rest, i, groups) ==
    IF lo = hi THEN Match(text, rs[lo] \o rest, i, groups)
    ELSE LET sooner == FirstOf(text, rs, lo, (lo + hi) \div 2, rest, i, groups)
         IN IF sooner.ok THEN sooner
            ELSE FirstOf(text, rs, ((lo + hi) \div 2) + 1, hi, rest, i, groups)

TryCounts(text, rest, i, first, last, step, groups) ==
    LET soonest == Match(text, rest, i + first, groups)
        tries == (last - first) * step
        middle == first + step * ((tries + 1) \div 2)
    IN IF soonest.ok THEN soonest
       ELSE IF first = last THEN NoMatch
       ELSE LET sooner == TryCounts(text, rest, i, first + step, middle, step, groups)
            IN IF sooner.ok THEN sooner
               ELSE IF middle = last THEN NoMatch
               ELSE TryCounts(text, rest, i, middle + step, last, step, groups)

\* The match of r that starts at offset i: group 0 is start and end.
MatchAt(r, text, i) ==
    LET From(m) ==
            IF m.ok THEN [ok |-> TRUE, start |-> i, end |-> m.end, groups |-> m.groups]
            ELSE NoMatch
    IN From(Match(text, r, i, <<>>))

\* The match of r at each offset of the text: Matches(r, text)[i + 1] is the
\* one at offset i.
Matches(r, text) == SeqOf([k \in 1..(Len(text) + 1) |-> MatchAt(r, text, k - 1)])

\* The first offset at or after `from` with a match; Len(all) if there is none.
FirstFrom(all, from) ==
    CHOOSE i \in from..Len(all) :
        /\ i = Len(all) \/ all[i + 1].ok
        /\ \A j \in from..(i - 1) : ~all[j + 1].ok

\* Where the search goes on after the match at offset i.
After(all, i) == IF all[i + 1].end = i THEN i + 1 ELSE all[i + 1].end

\* The offsets of the non-overlapping matches, left to right.
RECURSIVE Selected(_, _)
Selected(all, from) ==
    IF FirstFrom(all, from) >= Len(all) THEN <<>>
    ELSE <<FirstFrom(all, from)>> \o Selected(all, After(all, FirstFrom(all, from)))

\* re.search(r, text)
Search(r, text) ==
    LET First(all) ==
            IF FirstFrom(all, 0) >= Len(all) THEN NoMatch ELSE all[FirstFrom(all, 0) + 1]
    IN First(Matches(r, text))

\* bool(re.search(r, text))
Found(r, text) == \E i \in 0..Len(text) : Match(text, r, i, <<>>).ok

\* list(re.finditer(r, text)): the non-overlapping matches, left to right.
FindIter(r, text) ==
    LET At(all, starts) == SeqOf([k \in 1..Len(starts) |-> all[starts[k] + 1]])
        NonOverlapping(all) == At(all, Selected(all, 0))
    IN NonOverlapping(Matches(r, text))

\* match.start(n), match.end(n), match.group(n); group 0 is the whole match.
GroupStart(m, n) == IF n = 0 THEN m.start ELSE m.groups[n][1]
GroupEnd(m, n) == IF n = 0 THEN m.end ELSE m.groups[n][2]
Group(m, text, n) == Slice(text, GroupStart(m, n), GroupEnd(m, n))

\* A replacement template: literal text and \n group references.
Text(str) == [ref |-> FALSE, str |-> Chars(str)]
Ref(n) == [ref |-> TRUE, n |-> n]

Expand(template, m, text) ==
    Flatten([k \in 1..Len(template) |->
                IF template[k].ref THEN Group(m, text, template[k].n) ELSE template[k].str],
            1, Len(template))

\* re.sub(r, template, text): the text between the matches, each match
\* replaced by the expansion of the template.
Sub(r, template, text) ==
    LET Replaced(ms) ==
            IF ms = <<>> THEN text
            ELSE Flatten([k \in 1..Len(ms) |->
                             Slice(text, IF k = 1 THEN 0 ELSE ms[k - 1].end, ms[k].start)
                             \o Expand(template, ms[k], text)], 1, Len(ms))
                 \o Slice(text, ms[Len(ms)].end, Len(text))
    IN Replaced(FindIter(r, text))

\* text = re.sub(pattern, template, text) for each (pattern, template) of
\* steps[from..], in order. A pattern without a match leaves the text as it
\* is, so the steps are taken from one with a match to the next one with a
\* match in the text it left.
RECURSIVE SubEachFrom(_, _, _)
SubEachFrom(steps, from, text) ==
    LET hits == {k \in from..Len(steps) : Found(steps[k][1], text)}
        first == CHOOSE k \in hits : \A j \in hits : k <= j
    IN IF hits = {} THEN text
       ELSE SubEachFrom(steps, first + 1, Sub(steps[first][1], steps[first][2], text))

SubEach(steps, text) == SubEachFrom(steps, 1, text)

\* str.replace(old, new)
Replace(str, old, new) == Sub(Lit(old), <<Text(new)>>, str)

(***************************************************************************)
(* HybridNamedEntityExtractor._removeDuplicatesAndOverlaps                 *)
(***************************************************************************)

\* list.sort(key=lambda x: x.startPosition): a stable sort, ascending.
RECURSIVE InsertByStart(_, _)
InsertByStart(e, sorted) ==
    IF sorted = <<>> THEN <<e>>
    ELSE IF Head(sorted).startPosition <= e.startPosition
         THEN <<Head(sorted)>> \o InsertByStart(e, Tail(sorted))
         ELSE <<e>> \o sorted

\* A variant that leaves the list in the order it was given (no sort).
SortByStartSkipped(list) == list

RECURSIVE SortByStart(_)
SortByStart(list) ==
    IF list = <<>> THEN <<>>
    ELSE InsertByStart(list[Len(list)], SortByStart(SubSeq(list, 1, Len(list) - 1)))

\* The overlap test of the inner loop.
Overlaps(entity, existingEntity) ==
    /\ entity.startPosition < existingEntity.endPosition
    /\ entity.endPosition > existingEntity.startPosition

\* Index of the first element of cleaned that entity overlaps, 0 when none:
\* where the inner for loop reaches its break.
FirstOverlap(entity, list) ==
    LET hits == {i \in 1..Len(list) : Overlaps(entity, list[i])}
    IN IF hits = {} THEN 0 ELSE CHOOSE i \in hits : \A j \in hits : i <= j

\* list.remove(x): drops the first element equal to x.
ListRemove(list, x) ==
    LET at == CHOOSE i \in 1..Len(list) :
                  /\ list[i] = x
                  /\ \A j \in 1..(i - 1) : list[j] # x
    IN SubSeq(list, 1, at - 1) \o SubSeq(list, at + 1, Len(list))

\* A variant in which the new entity also wins against an equal confidence
\* (n_conf >= e_conf).
NewConfidenceWinsOrTies(entity, existingEntity) ==
    ~StrGreater(ExtractionConfidenceValue[existingEntity.confidence],
                ExtractionConfidenceValue[entity.confidence])

\* n_conf > e_conf, both taken with getattr(confidence, "value", confidence).
NewConfidenceWins(entity, existingEntity) ==
    StrGreater(ExtractionConfidenceValue[entity.confidence],
               ExtractionConfidenceValue[existingEntity.confidence])

\* ResolveOne with the replaced entity left in the list (no cleaned.remove).
ResolveOneKeepsReplaced(acc, entity) ==
    LET at == FirstOverlap(entity, acc)
    IN IF at = 0 THEN Append(acc, entity)
       ELSE IF NewConfidenceWins(entity, acc[at])
            THEN Append(acc, entity)
            ELSE acc

\* ResolveOne with the winning entity put in front (cleaned.insert(0, entity)).
ResolveOneInsertsFront(acc, entity) ==
    LET at == FirstOverlap(entity, acc)
    IN IF at = 0 THEN Append(acc, entity)
       ELSE IF NewConfidenceWins(entity, acc[at])
            THEN <<entity>> \o ListRemove(acc, acc[at])
            ELSE acc

\* One iteration of the outer for loop: entity against the accepted list.
ResolveOne(acc, entity) ==
    LET at == FirstOverlap(entity, acc)
    IN IF at = 0 THEN Append(acc, entity)
       ELSE IF NewConfidenceWins(entity, acc[at])
            THEN Append(ListRemove(acc, acc[at]), entity)
            ELSE acc

RECURSIVE ResolveLoop(_, _)
ResolveLoop(rest, acc) ==
    IF rest = <<>> THEN acc
    ELSE ResolveLoop(Tail(rest), ResolveOne(acc, Head(rest)))

\* The value returned for the list `list`.
RemoveDuplicatesAndOverlaps(list) ==
    IF list = <<>> THEN list ELSE ResolveLoop(SortByStart(list), <<>>)

(***************************************************************************)
(* HybridNamedEntityExtractor._analyzeEntityContext, _enhanceWithContext   *)
(***************************************************************************)

contextWindow == 50

personContextKeywords ==
    <<Chars("registered"), Chars("participant"), Chars("attendee"), Chars("mr"), Chars("mrs"), Chars("dr")>>

eventContextKeywords ==
    <<Chars("registered for"), Chars("attending"), Chars("conference"), Chars("summit")>>

locationContextKeywords ==
    <<Chars("in"), Chars("at"), Chars("held in"), Chars("located")>>

dateContextKeywords ==
    <<Chars("on"), Chars("scheduled"), Chars("happening")>>

\* sum(1 for keyword in keywords if keyword in context)
KeywordHits(keywords, context) ==
    Cardinality({i \in 1..Len(keywords) : Contains(keywords[i], context)})

AnalyzeEntityContext(entity, text) ==
    LET start == Max(0, entity.startPosition - contextWindow)
        end == Min(Len(text), entity.endPosition + contextWindow)
        context == StrLower(Slice(text, start, end))
    IN CASE entity.entityType = "PERSON" -> KeywordHits(personContextKeywords, context)
         [] entity.entityType = "EVENT" -> KeywordHits(eventContextKeywords, context)
         [] entity.entityType = "LOCATION" -> KeywordHits(locationContextKeywords, context)
         [] entity.entityType = "DATE" -> KeywordHits(dateContextKeywords, context)
         [] OTHER -> 0

\* EnhancedConfidence with "if" for "elif": LOW falls through both promotions.
EnhancedConfidenceFallsThrough(confidence, contextScore) ==
    IF contextScore > 0
    THEN IF confidence \in {"LOW", "MEDIUM"} THEN "HIGH" ELSE confidence
    ELSE confidence

\* EnhancedConfidence without the contextScore > 0 test.
EnhancedConfidenceUnconditional(confidence, contextScore) ==
    IF confidence = "LOW" THEN "MEDIUM"
    ELSE IF confidence = "MEDIUM" THEN "HIGH"
    ELSE confidence

\* The body of the for loop after contextScore is computed: the confidence
\* the entity has afterwards.
EnhancedConfidence(confidence, contextScore) ==
    IF contextScore > 0
    THEN IF confidence = "LOW" THEN "MEDIUM"
         ELSE IF confidence = "MEDIUM" THEN "HIGH"
         ELSE confidence
    ELSE confidence

\* contextScore of every entity of the list, in loop order.
ContextScores(list, text) ==
    SeqOf([i \in 1..Len(list) |-> AnalyzeEntityContext(list[i], text)])

\* The list returned, given the scores: the same entities, their confidence
\* assigned in place.
EnhanceWithScores(list, scores) ==
    SeqOf([i \in 1..Len(list) |->
        [list[i] EXCEPT !.confidence = EnhancedConfidence(list[i].confidence, scores[i])]])

EnhanceWithContext(list, text) == EnhanceWithScores(list, ContextScores(list, text))

(***************************************************************************)
(* HybridNamedEntityExtractor: patterns, knowledge bases, candidates       *)
(***************************************************************************)

\* self.patterns
personNames ==
    <<Cat(<<
          WordB, Set(UpperSet), Plus(Set(LowerSet)), Plus(Set(SpaceSet)), Set(UpperSet),
          Plus(Set(LowerSet)),
          Opt(Cat(<<Plus(Set(SpaceSet)), Set(UpperSet), Plus(Set(LowerSet))>>)), WordB>>),
      Cat(<<
          WordB, Alt(<<Lit("Mr"), Lit("Mrs"), Lit("Ms"), Lit("Dr"), Lit("Prof")>>), Opt(Lit(".")),
          Plus(Set(SpaceSet)), Set(UpperSet), Plus(Set(LowerSet)), Plus(Set(SpaceSet)),
          Set(UpperSet), Plus(Set(LowerSet)), WordB>>),
      Cat(<<
          WordB, Set(UpperSet), Plus(Set(LowerSet)), Plus(Set(SpaceSet)), Set(UpperSet), Lit("."),
          Plus(Set(SpaceSet)), Set(UpperSet), Plus(Set(LowerSet)), WordB>>)>>

eventPatterns ==
    <<IgnoreCase(Cat(<<
                     WordB, Opt(Cat(<<Lit("the"), Plus(Set(SpaceSet))>>)), Set(UpperSet),
                     Star(Set(LowerSet)), Plus(Set(SpaceSet)),
                     Alt(<<
                         Lit("Conference"), Lit("Summit"), Lit("Workshop"), Lit("Meetup"),
                         Lit("Expo"), Lit("Convention"), Lit("Symposium")>>),
                     WordB>>)),
      Cat(<<WordB, Plus(Set(UpperSet)), Plus(Set(SpaceSet)), Rep(Set(DigitSet), 4, 4), WordB>>),
      IgnoreCase(Cat(<<
                     WordB, Rep(Set(DigitSet), 4, 4), Plus(Set(SpaceSet)), Set(UpperSet),
                     Plus(Set(LowerSet)), Plus(Set(SpaceSet)),
                     Alt(<<Lit("Conference"), Lit("Summit")>>), WordB>>))>>

locationPatterns ==
    <<Cat(<<
          WordB, Lit("in"), Plus(Set(SpaceSet)),
          Grp(1,
              Cat(<<
                  Set(UpperSet), Plus(Set(LowerSet)),
                  Star(Cat(<<Plus(Set(SpaceSet)), Set(UpperSet), Plus(Set(LowerSet))>>))>>)),
          Opt(Lit(",")), Star(Set(SpaceSet)), Opt(Grp(2, Rep(Set(UpperSet), 2, 3))), WordB>>),
      Cat(<<
          WordB, Lit("at"), Plus(Set(SpaceSet)),
          Grp(1,
              Cat(<<
                  Set(UpperSet), Plus(Set(LowerSet)),
                  Star(Cat(<<Plus(Set(SpaceSet)), Set(UpperSet), Plus(Set(LowerSet))>>))>>)),
          WordB>>),
      Cat(<<
          WordB, Grp(1, Cat(<<Set(UpperSet), Plus(Set(LowerSet))>>)), Lit(","),
          Star(Set(SpaceSet)), Grp(2, Cat(<<Set(UpperSet), Plus(Set(LowerSet))>>)),
          Opt(Cat(<<Lit(","), Star(Set(SpaceSet)), Grp(3, Rep(Set(UpperSet), 2, 3))>>)), WordB>>)>>

datePatterns ==
    <<IgnoreCase(Cat(<<
                     WordB, Opt(Cat(<<Lit("on"), Plus(Set(SpaceSet))>>)),
                     Alt(<<
                         Lit("Jan"), Lit("Feb"), Lit("Mar"), Lit("Apr"), Lit("May"), Lit("Jun"),
                         Lit("Jul"), Lit("Aug"), Lit("Sep"), Lit("Oct"), Lit("Nov"), Lit("Dec")>>),
                     Star(Set(LowerSet)), Plus(Set(SpaceSet)), Rep(Set(DigitSet), 1, 2),
                     Opt(Lit(",")), Plus(Set(SpaceSet)), Rep(Set(DigitSet), 4, 4), WordB>>)),
      IgnoreCase(Cat(<<
                     WordB, Opt(Cat(<<Lit("on"), Plus(Set(SpaceSet))>>)),
                     Rep(Set(DigitSet), 1, 2), Plus(Set(SpaceSet)),
                     Alt(<<
                         Lit("Jan"), Lit("Feb"), Lit("Mar"), Lit("Apr"), Lit("May"), Lit("Jun"),
                         Lit("Jul"), Lit("Aug"), Lit("Sep"), Lit("Oct"), Lit("Nov"), Lit("Dec")>>),
                     Star(Set(LowerSet)), Plus(Set(SpaceSet)), Rep(Set(DigitSet), 4, 4), WordB>>)),
      Cat(<<
          WordB, Opt(Cat(<<Lit("on"), Plus(Set(SpaceSet))>>)), Rep(Set(DigitSet), 1, 2),
          Set({"-", "/"}), Rep(Set(DigitSet), 1, 2), Set({"-", "/"}), Rep(Set(DigitSet), 2, 4),
          WordB>>),
      Cat(<<
          WordB, Opt(Cat(<<Lit("on"), Plus(Set(SpaceSet))>>)), Rep(Set(DigitSet), 4, 4),
          Set({"-", "/"}), Rep(Set(DigitSet), 1, 2), Set({"-", "/"}), Rep(Set(DigitSet), 1, 2),
          WordB>>)>>

\* A set of str literals as a set of character sequences.
Strs(S) == {Chars(w) : w \in S}

\* The knowledge bases.
commonFirstNames ==
    Strs({"john", "jane", "michael", "sarah", "david", "maria", "james", "lisa", "robert",
          "jennifer", "william", "elizabeth", "richard", "patricia", "ahmed", "fatima",
          "muhammad", "aisha", "ali", "zainab", "omar", "sara"})

commonLastNames ==
    Strs({"smith", "johnson", "brown", "taylor", "miller", "davis", "garcia", "rodriguez",
          "wilson", "martinez", "anderson", "jackson", "white", "khan", "ahmed", "ali", "shah",
          "malik", "hussain", "abbas"})

eventTypeIndicators ==
    Strs({"conference", "summit", "workshop", "seminar", "meetup", "expo", "convention",
          "symposium", "forum", "congress", "festival", "competition", "tournament",
          "championship", "ceremony"})

domainKeywords ==
    Strs({"tech", "technology", "ai", "artificial intelligence", "ml", "machine learning",
          "data science", "blockchain", "cybersecurity", "cloud", "mobile", "web", "software",
          "hardware", "iot", "robotics", "fintech", "healthtech"})

majorCities ==
    Strs({"new york", "london", "tokyo", "paris", "berlin", "sydney", "toronto", "mumbai",
          "delhi", "bangalore", "karachi", "lahore", "islamabad", "dubai", "singapore",
          "hong kong", "san francisco", "los angeles"})

\* self.registrationVerbs, a set; the loop over it takes its members in the
\* order written here. Each verb yields candidates of its own spans, which the
\* resolver then sorts by start.
registrationVerbs ==
    <<"registered", "signed up", "enrolled", "joined", "participated", "attended", "booked",
      "reserved", "confirmed", "applied", "subscribed">>

\* self.contextualRules["personNameContext"], each followed by the name group
\* that _extractPersonNamesFromContext appends, compiled with re.IGNORECASE.
personNameContext ==
    <<IgnoreCase(Cat(<<
                     WordB, Alt(<<Lit("Mr"), Lit("Mrs"), Lit("Ms"), Lit("Dr"), Lit("Prof")>>),
                     Opt(Lit(".")), Plus(Set(SpaceSet)),
                     Grp(1,
                         Cat(<<
                             Set(UpperSet), Plus(Set(LowerSet)),
                             Star(Cat(<<
                                      Plus(Set(SpaceSet)), Set(UpperSet), Plus(Set(LowerSet))>>))>>))>>)),
      IgnoreCase(Cat(<<
                     WordB, Alt(<<Lit("registered"), Lit("signed up"), Lit("enrolled")>>),
                     Plus(Set(SpaceSet)), Alt(<<Lit("for"), Lit("to")>>), Plus(Set(SpaceSet)),
                     Lazy(Star(Set(AnyChar))), Plus(Set(SpaceSet)),
                     Alt(<<Lit("by"), Lit("participant"), Lit("attendee")>>), Plus(Set(SpaceSet)),
                     Grp(1,
                         Cat(<<
                             Set(UpperSet), Plus(Set(LowerSet)),
                             Star(Cat(<<
                                      Plus(Set(SpaceSet)), Set(UpperSet), Plus(Set(LowerSet))>>))>>))>>)),
      IgnoreCase(Cat(<<
                     WordB, Lit("participant"), Plus(Set(SpaceSet)),
                     Opt(Cat(<<Lit("name"), Star(Set(SpaceSet)), Lit(":"), Star(Set(SpaceSet))>>)),
                     Grp(1,
                         Cat(<<
                             Set(UpperSet), Plus(Set(LowerSet)),
                             Star(Cat(<<
                                      Plus(Set(SpaceSet)), Set(UpperSet), Plus(Set(LowerSet))>>))>>))>>)),
      IgnoreCase(Cat(<<
                     WordB, Lit("attendee"), Plus(Set(SpaceSet)),
                     Opt(Cat(<<Lit("name"), Star(Set(SpaceSet)), Lit(":"), Star(Set(SpaceSet))>>)),
                     Grp(1,
                         Cat(<<
                             Set(UpperSet), Plus(Set(LowerSet)),
                             Star(Cat(<<
                                      Plus(Set(SpaceSet)), Set(UpperSet), Plus(Set(LowerSet))>>))>>))>>))>>

\* rf"\b{verb}\s+(?:for\s+)?(?:the\s+)?([A-Z][^.!?]*?(?:conference|...))", re.IGNORECASE
EventContextPattern(verb) ==
    IgnoreCase(Cat(<<WordB, Lit(verb), Cat(<<
                                           Plus(Set(SpaceSet)),
                                           Opt(Cat(<<Lit("for"), Plus(Set(SpaceSet))>>)),
                                           Opt(Cat(<<Lit("the"), Plus(Set(SpaceSet))>>)),
                                           Grp(1,
                                               Cat(<<
                                                   Set(UpperSet),
                                                   Lazy(Star(Set(Not({"!", ".", "?"})))),
                                                   Alt(<<
                                                       Lit("conference"), Lit("summit"),
                                                       Lit("workshop"), Lit("meetup"),
                                                       Lit("expo"), Lit("convention"),
                                                       Lit("symposium")>>)>>))>>)>>))

\* The date patterns of _validateDate, compiled with re.IGNORECASE.
validDatePatterns ==
    <<IgnoreCase(Cat(<<
                     WordB,
                     Alt(<<
                         Lit("Jan"), Lit("Feb"), Lit("Mar"), Lit("Apr"), Lit("May"), Lit("Jun"),
                         Lit("Jul"), Lit("Aug"), Lit("Sep"), Lit("Oct"), Lit("Nov"), Lit("Dec")>>),
                     Star(Set(LowerSet)), Plus(Set(SpaceSet)), Rep(Set(DigitSet), 1, 2),
                     Opt(Lit(",")), Plus(Set(SpaceSet)), Rep(Set(DigitSet), 4, 4), WordB>>)),
      IgnoreCase(Cat(<<
                     WordB, Rep(Set(DigitSet), 1, 2), Plus(Set(SpaceSet)),
                     Alt(<<
                         Lit("Jan"), Lit("Feb"), Lit("Mar"), Lit("Apr"), Lit("May"), Lit("Jun"),
                         Lit("Jul"), Lit("Aug"), Lit("Sep"), Lit("Oct"), Lit("Nov"), Lit("Dec")>>),
                     Star(Set(LowerSet)), Plus(Set(SpaceSet)), Rep(Set(DigitSet), 4, 4), WordB>>)),
      IgnoreCase(Cat(<<
                     WordB, Rep(Set(DigitSet), 1, 2), Set({"-", "/"}), Rep(Set(DigitSet), 1, 2),
                     Set({"-", "/"}), Rep(Set(DigitSet), 2, 4), WordB>>)),
      IgnoreCase(Cat(<<
                     WordB, Rep(Set(DigitSet), 4, 4), Set({"-", "/"}), Rep(Set(DigitSet), 1, 2),
                     Set({"-", "/"}), Rep(Set(DigitSet), 1, 2), WordB>>))>>

\* ExtractedEntity.__post_init__: whether construction succeeds.
EntityPostInitOk(entity) ==
    /\ entity.entityType \in EntityType
    /\ entity.value # <<>> /\ Strip(entity.value) # <<>>
    /\ ~(entity.startPosition < 0 \/ entity.endPosition < entity.startPosition)
    /\ entity.confidence \in ExtractionConfidence

ExtractedEntity(entityType, value, confidence, startPosition, endPosition, originalText) ==
    [entityType |-> entityType, value |-> value, confidence |-> confidence,
     startPosition |-> startPosition, endPosition |-> endPosition,
     originalText |-> originalText]

\* for pattern in patterns: for match in pattern.finditer(text): the entity
\* Make(match, Value(match)) of every match whose value passes Keep, in the
\* order the loops append them.
Collect(patterns, text, Value(_), Keep(_), Make(_, _)) ==
    LET Made(ms, values, kept) ==
            IF kept = <<>> THEN <<>>
            ELSE SeqOf([n \in 1..Len(kept) |-> Make(ms[kept[n]], values[kept[n]])])
        Kept(ms, values) ==
            Made(ms, values,
                 SelectSeq(SeqOf([j \in 1..Len(ms) |-> j]), LAMBDA j : Keep(values[j])))
        Valued(ms) ==
            IF ms = <<>> THEN <<>> ELSE Kept(ms, SeqOf([j \in 1..Len(ms) |-> Value(ms[j])]))
        Flat(found) == IF found = <<>> THEN <<>> ELSE Valued(Flatten(found, 1, Len(found)))
    IN Flat(SeqOf([k \in 1..Len(patterns) |-> FindIter(patterns[k], text)]))

nonNameWords ==
    Strs({"conference", "summit", "workshop", "meeting", "event", "the", "and", "or"})

\* any(f(word) for word in words) and all(...), on a list of words.
AnyWord(words, P(_)) == \E i \in 1..Len(words) : P(words[i])
AllWords(words, P(_)) == \A i \in 1..Len(words) : P(words[i])

\* word[0].isupper() and word[1:].islower()
IsCapitalized(word) == IsUpper(<<Head(word)>>) /\ IsLower(Tail(word))

\* HybridNamedEntityExtractor._validatePersonName
NerValidatePersonName(name) ==
    LET words == Split(name)
        hasFirstName == AnyWord(words, LAMBDA w : StrLower(w) \in commonFirstNames)
        hasLastName == AnyWord(words, LAMBDA w : StrLower(w) \in commonLastNames)
        hasValidPattern == AllWords(words, LAMBDA w : IsAlpha(w) /\ IsUpper(<<Head(w)>>))
        hasNonNameWords == AnyWord(words, LAMBDA w : StrLower(w) \in nonNameWords)
    IN IF name = <<>> \/ Len(words) < 2 THEN FALSE
       ELSE (hasFirstName \/ hasLastName \/ hasValidPattern) /\ ~hasNonNameWords

\* HybridNamedEntityExtractor._validateEventName
NerValidateEventName(eventName) ==
    LET eventLower == StrLower(eventName)
        hasEventIndicator == \E indicator \in eventTypeIndicators : Contains(indicator, eventLower)
        hasDomainKeyword == \E keyword \in domainKeywords : Contains(keyword, eventLower)
        hasYear == Found(Cat(<<WordB, Lit("20"), Rep(Set(DigitSet), 2, 2), WordB>>), eventName)
    IN IF eventName = <<>> \/ Len(Strip(eventName)) < 3 THEN FALSE
       ELSE hasEventIndicator \/ hasDomainKeyword \/ hasYear

nonLocationWords ==
    Strs({"conference", "summit", "workshop", "meeting", "event", "the", "and", "or"})

\* The shape _validateLocation and _calculateLocationConfidence search for.
locationShape == Cat(<<
                     Bos, Set(UpperSet), Plus(Set(LowerSet)),
                     Star(Cat(<<Plus(Set(SpaceSet)), Set(UpperSet), Plus(Set(LowerSet))>>)),
                     Opt(Cat(<<Lit(","), Star(Set(SpaceSet)), AtLeast(Set(UpperSet), 2)>>))>>)

ValidateLocation(location) ==
    LET isKnownCity == StrLower(location) \in majorCities
        hasLocationPattern == Found(locationShape, location)
        hasNonLocationWords ==
            AnyWord(Split(location), LAMBDA w : StrLower(w) \in nonLocationWords)
    IN IF location = <<>> \/ Len(Strip(location)) < 2 THEN FALSE
       ELSE (isKnownCity \/ hasLocationPattern) /\ ~hasNonLocationWords

ValidateDate(date) ==
    IF date = <<>> THEN FALSE
    ELSE \E i \in 1..Len(validDatePatterns) : Found(validDatePatterns[i], date)

CalculatePersonNameConfidence(name) ==
    LET words == Split(name)
        score ==
            (IF AnyWord(words, LAMBDA w : StrLower(w) \in commonFirstNames) THEN 3 ELSE 0)
            + (IF AnyWord(words, LAMBDA w : StrLower(w) \in commonLastNames) THEN 3 ELSE 0)
            + (IF AllWords(words, IsCapitalized) THEN 2 ELSE 0)
            + (IF Len(words) = 2 THEN 2 ELSE IF Len(words) > 4 THEN -1 ELSE 0)
    IN IF score >= 5 THEN "HIGH" ELSE IF score >= 3 THEN "MEDIUM" ELSE "LOW"

CalculateEventNameConfidence(eventName, fullText) ==
    LET eventLower == StrLower(eventName)
        fullLower == StrLower(fullText)
        score ==
            (IF \E indicator \in eventTypeIndicators : Contains(indicator, eventLower)
             THEN 4 ELSE 0)
            + (IF \E keyword \in domainKeywords : Contains(keyword, eventLower) THEN 3 ELSE 0)
            + (IF Found(Cat(<<
                            WordB, Lit("20"), Rep(Set(DigitSet), 2, 2), WordB>>), eventName) THEN 2 ELSE 0)
            + (IF \E i \in 1..Len(registrationVerbs) :
                      Contains(Chars(registrationVerbs[i]), fullLower)
               THEN 2 ELSE 0)
            + (IF eventName # <<>> /\ IsUpper(<<Head(eventName)>>) THEN 1 ELSE 0)
    IN IF score >= 6 THEN "HIGH" ELSE IF score >= 3 THEN "MEDIUM" ELSE "LOW"

CalculateLocationConfidence(location) ==
    LET score ==
            (IF StrLower(location) \in majorCities THEN 4 ELSE 0)
            + (IF Found(locationShape, location) THEN 3 ELSE 0)
            + (IF 3 <= Len(location) /\ Len(location) <= 30 THEN 1 ELSE 0)
    IN IF score >= 4 THEN "HIGH" ELSE IF score >= 2 THEN "MEDIUM" ELSE "LOW"

CalculateDateConfidence(date) ==
    IF Found(IgnoreCase(Cat(<<
                            WordB,
                            Alt(<<
                                Lit("Jan"), Lit("Feb"), Lit("Mar"), Lit("Apr"), Lit("May"),
                                Lit("Jun"), Lit("Jul"), Lit("Aug"), Lit("Sep"), Lit("Oct"),
                                Lit("Nov"), Lit("Dec")>>)>>)), date) THEN "HIGH"
    ELSE IF Found(Rep(Set(DigitSet), 4, 4), date) THEN "MEDIUM"
    ELSE "LOW"

CleanLocationText(locationText) ==
    Strip(Sub(IgnoreCase(Cat(<<
                             Bos, Star(Set(SpaceSet)), Alt(<<Lit("in"), Lit("at"), Lit("near")>>),
                             Plus(Set(SpaceSet))>>)), <<>>, locationText))

CleanDateText(dateText) ==
    Strip(Sub(IgnoreCase(Cat(<<
                             Bos, Star(Set(SpaceSet)),
                             Alt(<<Lit("on"), Lit("date"), Lit("scheduled for")>>),
                             Plus(Set(SpaceSet))>>)), <<>>, dateText))

\* The candidate built from a match whose cleaned value is `value`.
MatchEntity(entityType, value, confidence, m, text) ==
    ExtractedEntity(entityType, value, confidence, m.start, m.end, Slice(text, m.start, m.end))

ExtractPersonNamesFromContext(text) ==
    Collect(personNameContext, text,
            LAMBDA m : Strip(Group(m, text, 1)),
            NerValidatePersonName,
            LAMBDA m, name : ExtractedEntity("PERSON", name, "HIGH",
                                             GroupStart(m, 1), GroupEnd(m, 1), name))

ExtractPersonNames(text) ==
    Collect(personNames, text,
            LAMBDA m : Strip(Group(m, text, 0)),
            NerValidatePersonName,
            LAMBDA m, name : MatchEntity("PERSON", name, CalculatePersonNameConfidence(name),
                                         m, text))
    \o ExtractPersonNamesFromContext(text)

ExtractEventNamesFromContext(text) ==
    Collect(SeqOf([k \in 1..Len(registrationVerbs) |-> EventContextPattern(registrationVerbs[k])]),
            text,
            LAMBDA m : Strip(Group(m, text, 1)),
            NerValidateEventName,
            LAMBDA m, eventName : ExtractedEntity("EVENT", eventName, "HIGH",
                                                  GroupStart(m, 1), GroupEnd(m, 1), eventName))

ExtractEventNames(text) ==
    Collect(eventPatterns, text,
            LAMBDA m : Strip(Group(m, text, 0)),
            NerValidateEventName,
            LAMBDA m, eventName : MatchEntity("EVENT", eventName,
                                              CalculateEventNameConfidence(eventName, text),
                                              m, text))
    \o ExtractEventNamesFromContext(text)

ExtractLocations(text) ==
    Collect(locationPatterns, text,
            LAMBDA m : CleanLocationText(Group(m, text, 0)),
            LAMBDA location : location # <<>> /\ ValidateLocation(location),
            LAMBDA m, location : MatchEntity("LOCATION", location,
                                             CalculateLocationConfidence(location), m, text))

ExtractDates(text) ==
    Collect(datePatterns, text,
            LAMBDA m : CleanDateText(Strip(Group(m, text, 0))),
            LAMBDA cleanedDate : cleanedDate # <<>> /\ ValidateDate(cleanedDate),
            LAMBDA m, cleanedDate : MatchEntity("DATE", cleanedDate,
                                                CalculateDateConfidence(cleanedDate), m, text))

\* The candidates of the four strategies, in the order extractEntities
\* collects them.
Candidates(text) ==
    ExtractPersonNames(text) \o ExtractEventNames(text)
    \o ExtractLocations(text) \o ExtractDates(text)

\* not text or not text.strip()
Blank(text) == text = <<>> \/ Strip(text) = <<>>

\* str(exc) of the ValueError __post_init__ raises for an entity it rejects.
EntityPostInitError(entity) ==
    IF entity.entityType \notin EntityType THEN "Invalid entity type"
    ELSE IF entity.value = <<>> \/ Strip(entity.value) = <<>> THEN "Entity value cannot be empty"
    ELSE IF entity.startPosition < 0 \/ entity.endPosition < entity.startPosition
    THEN "Invalid position values"
    ELSE "Invalid confidence level"

\* HybridNamedEntityExtractor.extractEntities: the list returned and how the
\* call ended: before the try block, at its end, or in the except clause
\* because an ExtractedEntity's __post_init__ raised, with str(exc).
ExtractEntitiesResult(text) ==
    IF Blank(text) THEN [entities |-> <<>>, outcome |-> "blank", exception |-> ""]
    ELSE LET Of(extractedEntities) ==
                 IF \E i \in 1..Len(extractedEntities) :
                        ~EntityPostInitOk(extractedEntities[i])
                 THEN [entities |-> <<>>, outcome |-> "error",
                       exception |->
                           EntityPostInitError(
                               extractedEntities[
                                   CHOOSE i \in 1..Len(extractedEntities) :
                                       /\ ~EntityPostInitOk(extractedEntities[i])
                                       /\ \A j \in 1..(i - 1) :
                                              EntityPostInitOk(extractedEntities[j])])]
                 ELSE [entities |->
                           EnhanceWithContext(
                               RemoveDuplicatesAndOverlaps(extractedEntities), text),
                       outcome |-> "success", exception |-> ""]
         IN Of(Candidates(text))

\* A variant that counts every run that passed the blank-text guard as
\* successful.
ExtractorAfterCountsFailures(state, outcome, exception) ==
    [extractionCount |-> state.extractionCount + 1,
     successfulExtractions |->
         state.successfulExtractions + (IF outcome # "blank" THEN 1 ELSE 0),
     lastError |->
         CASE outcome = "success" -> "None"
           [] outcome = "error" -> "Extraction error: " \o exception
           [] OTHER -> state.lastError]

\* The extractor's counters and _lastError after a call that ended with
\* `outcome`: self._lastError = f"Extraction error: {exc}" in the except clause,
\* None at the end of the try block, untouched by the blank-text return.
ExtractorAfter(state, outcome, exception) ==
    [extractionCount |-> state.extractionCount + 1,
     successfulExtractions |->
         state.successfulExtractions + (IF outcome = "success" THEN 1 ELSE 0),
     lastError |->
         CASE outcome = "success" -> "None"
           [] outcome = "error" -> "Extraction error: " \o exception
           [] OTHER -> state.lastError]

(***************************************************************************)
(* AdvancedInformationProcessor (info_processing.py)                       *)
(***************************************************************************)

\* A variant whose overallConfidence defaults to LOW instead of UNKNOWN.
EventRegistrationInfoLow(originalText) ==
    [participantName |-> None, eventName |-> None, location |-> None, date |-> None,
     extractedEntities |-> <<>>, originalText |-> originalText,
     overallConfidence |-> "LOW"]

\* EventRegistrationInfo(originalText=originalText): the dataclass defaults.
\* extractionTimestamp, which nothing reads, is left out.
EventRegistrationInfo(originalText) ==
    [participantName |-> None, eventName |-> None, location |-> None, date |-> None,
     extractedEntities |-> <<>>, originalText |-> originalText,
     overallConfidence |-> "UNKNOWN"]

\* bool(field and field.strip()) for an Optional[str] field.
FieldCompleted(field) == Truthy(field) /\ Strip(field[1]) # <<>>

\* The number of the four fields for which Test holds.
FieldCount(info, Test(_)) ==
    (IF Test(info.participantName) THEN 1 ELSE 0) + (IF Test(info.eventName) THEN 1 ELSE 0)
    + (IF Test(info.location) THEN 1 ELSE 0) + (IF Test(info.date) THEN 1 ELSE 0)

\* EventRegistrationInfo.isComplete
IsComplete(info) == FieldCount(info, FieldCompleted) = 4

\* EventRegistrationInfo.getCompletionPercentage: (completed / 4) * 100.0
GetCompletionPercentage(info) == FieldCount(info, FieldCompleted) * 25

\* _confidenceToScore, and the confidenceValues table of the aggregation.
ConfidenceToScore(confidence) ==
    CASE confidence = "HIGH" -> 3
      [] confidence = "MEDIUM" -> 2
      [] confidence = "LOW" -> 1
      [] confidence = "UNKNOWN" -> 0

\* sum(confidenceValues[entity.confidence] for entity in entities)
RECURSIVE TotalConfidence(_)
TotalConfidence(list) ==
    IF list = <<>> THEN 0
    ELSE ConfidenceToScore(Head(list).confidence) + TotalConfidence(Tail(list))

\* CalculateOverallConfidence with ">" for ">=" in the MEDIUM row.
CalculateOverallConfidenceStrict(info) ==
    LET filledFields == FieldCount(info, Truthy)
        total == TotalConfidence(info.extractedEntities)
        n == Len(info.extractedEntities)
    IN IF n = 0 THEN "UNKNOWN"
       ELSE IF filledFields = 4 /\ 2 * total >= 5 * n THEN "HIGH"
       ELSE IF filledFields >= 3 /\ total >= 2 * n THEN "HIGH"
       ELSE IF filledFields >= 2 /\ 2 * total > 3 * n THEN "MEDIUM"
       ELSE IF filledFields >= 1 THEN "LOW"
       ELSE "UNKNOWN"

\* A variant of _calculateOverallConfidence without the last two branches: a
\* record that reaches no higher row is LOW.
CalculateOverallConfidenceFloor(info) ==
    LET filledFields == FieldCount(info, Truthy)
        total == TotalConfidence(info.extractedEntities)
        n == Len(info.extractedEntities)
    IN IF n = 0 THEN "UNKNOWN"
       ELSE IF filledFields = 4 /\ 2 * total >= 5 * n THEN "HIGH"
       ELSE IF filledFields >= 3 /\ total >= 2 * n THEN "HIGH"
       ELSE IF filledFields >= 2 /\ 2 * total >= 3 * n THEN "MEDIUM"
       ELSE "LOW"

\* _calculateOverallConfidence. averageConfidence = total / n is compared
\* exactly: total / n >= 2.5 is 2 * total >= 5 * n, and so on.
CalculateOverallConfidence(info) ==
    LET filledFields == FieldCount(info, Truthy)
        total == TotalConfidence(info.extractedEntities)
        n == Len(info.extractedEntities)
    IN IF n = 0 THEN "UNKNOWN"
       ELSE IF filledFields = 4 /\ 2 * total >= 5 * n THEN "HIGH"
       ELSE IF filledFields >= 3 /\ total >= 2 * n THEN "HIGH"
       ELSE IF filledFields >= 2 /\ 2 * total >= 3 * n THEN "MEDIUM"
       ELSE IF filledFields >= 1 THEN "LOW"
       ELSE "UNKNOWN"

\* self.invalidPatterns, searched with re.IGNORECASE
invalidPersonName ==
    <<IgnoreCase(Cat(<<
                     WordB,
                     Alt(<<
                         Lit("conference"), Lit("summit"), Lit("workshop"), Lit("event"),
                         Lit("meeting")>>),
                     WordB>>)),
      IgnoreCase(Cat(<<
                     WordB,
                     Alt(<<
                         Lit("january"), Lit("february"), Lit("march"), Lit("april"), Lit("may"),
                         Lit("june"), Lit("july"), Lit("august"), Lit("september"),
                         Lit("october"), Lit("november"), Lit("december")>>),
                     WordB>>)),
      IgnoreCase(Rep(Set(DigitSet), 4, 4)),
      IgnoreCase(Lit("@"))>>

invalidEventName == <<IgnoreCase(Cat(<<Bos, Plus(Set(DigitSet)), Eos>>)), IgnoreCase(Cat(<<
                                                                                         Bos,
                                                                                         Plus(Set(LowerSet \cup SpaceSet)),
                                                                                         Eos>>))>>

invalidLocation == <<IgnoreCase(Cat(<<
                                    WordB,
                                    Alt(<<Lit("registered"), Lit("signed up"), Lit("enrolled")>>),
                                    WordB>>)), IgnoreCase(Cat(<<
                                                                                                                                                                                                                                                   Bos,
                                                                                                                                                                                                                                                   Plus(Set(DigitSet)),
                                                                                                                                                                                                                                                   Eos>>))>>

\* any(re.search(pattern, value, re.IGNORECASE) for pattern in patterns)
AnyFound(patterns, value) == \E i \in 1..Len(patterns) : Found(patterns[i], value)

\* AdvancedInformationProcessor._validatePersonName
ValidatePersonName(name) ==
    IF name = <<>> \/ Len(Strip(name)) < 3 THEN FALSE
    ELSE IF Len(name) > 100 THEN FALSE
    ELSE IF AnyFound(invalidPersonName, name) THEN FALSE
    ELSE IF ~MatchAt(Cat(<<
                         Bos,
                         Plus(Set(UpperSet \cup LowerSet \cup SpaceSet \cup {"'", "-", "."})),
                         Eos>>), name, 0).ok THEN FALSE
    ELSE IF ~Contains(<<" ">>, Strip(name)) THEN FALSE
    ELSE TRUE

\* AdvancedInformationProcessor._validateEventName
ValidateEventName(eventName) ==
    IF eventName = <<>> \/ Len(Strip(eventName)) < 5 THEN FALSE
    ELSE IF Len(eventName) > 200 THEN FALSE
    ELSE ~AnyFound(invalidEventName, eventName)

ValidateLocationName(location) ==
    IF location = <<>> \/ Len(Strip(location)) < 2 THEN FALSE
    ELSE IF Len(location) > 100 THEN FALSE
    ELSE ~AnyFound(invalidLocation, location)

\* _validateDateFormat: the same four patterns as the extractor's _validateDate.
ValidateDateFormat(date) ==
    IF date = <<>> \/ Strip(date) = <<>> THEN FALSE
    ELSE AnyFound(validDatePatterns, date)

\* ' '.join(value.strip().split())
Squeeze(value) == Join(<<" ">>, Split(Strip(value)))

\* [Make(word) for word in words]
MapWords(words, Make(_)) == SeqOf([i \in 1..Len(words) |-> Make(words[i])])

CleanAndFormatPersonName(name) ==
    LET words == Split(Squeeze(name))
        format(word) ==
            IF StrUpper(word) \in Strs({"II", "III", "IV", "JR", "SR"}) THEN StrUpper(word)
            ELSE IF Contains(<<".">>, word) THEN StrUpper(word)
            ELSE Capitalize(word)
    IN Join(<<" ">>, MapWords(words, format))

CleanAndFormatLocationName(location) ==
    LET squeezed == Squeeze(location)
        capitalized(part) == Join(<<" ">>, MapWords(Split(part), Capitalize))
    IN IF Contains(<<",">>, squeezed)
       THEN Join(Chars(", "),
                 MapWords(SplitOn(squeezed, ","), LAMBDA part : capitalized(Strip(part))))
       ELSE capitalized(squeezed)

\* monthReplacements, in the order the dict is written.
monthReplacements ==
    <<<<"january", "January">>, <<"jan", "January">>, <<"february", "February">>,
      <<"feb", "February">>, <<"march", "March">>, <<"mar", "March">>,
      <<"april", "April">>, <<"apr", "April">>, <<"may", "May">>, <<"june", "June">>,
      <<"jun", "June">>, <<"july", "July">>, <<"jul", "July">>, <<"august", "August">>,
      <<"aug", "August">>, <<"september", "September">>, <<"sep", "September">>,
      <<"october", "October">>, <<"oct", "October">>, <<"november", "November">>,
      <<"nov", "November">>, <<"december", "December">>, <<"dec", "December">>>>

\* for abbrev, fullMonth in pairs: re.sub(r'\b' + abbrev + r'\b', fullMonth, ..., re.IGNORECASE)
ReplaceWords(pairs, str) ==
    SubEach(SeqOf([i \in 1..Len(pairs) |->
                      <<IgnoreCase(Cat(<<WordB, Lit(pairs[i][1]), WordB>>)),
                        <<Text(pairs[i][2])>>>>]), str)

CleanAndFormatDate(date) ==
    ReplaceWords(monthReplacements,
                 Strip(Sub(IgnoreCase(Cat(<<
                                          Bos, Star(Set(SpaceSet)),
                                          Alt(<<Lit("on"), Lit("date"), Lit("scheduled for")>>),
                                          Plus(Set(SpaceSet))>>)), <<>>, date)))

lowercaseWords == Strs({"and", "or", "of", "the", "in", "on", "at", "for", "with", "by"})

CleanAndFormatEventName(eventName) ==
    LET words == Split(Squeeze(eventName))
    IN Join(<<" ">>,
            SeqOf([i \in 1..Len(words) |->
                IF StrLower(words[i]) \in lowercaseWords /\ i > 1
                THEN StrLower(words[i]) ELSE Capitalize(words[i])]))

\* The confidenceScores table of the four _score*Entity methods.
ConfidenceScore(confidence) ==
    CASE confidence = "HIGH" -> 10
      [] confidence = "MEDIUM" -> 6
      [] confidence = "LOW" -> 2
      [] confidence = "UNKNOWN" -> 0

ScorePersonEntity(entity) ==
    LET words == Split(entity.value)
    IN ConfidenceScore(entity.confidence)
       + (IF Len(words) = 2 THEN 5 ELSE IF Len(words) = 3 THEN 3 ELSE -1)
       + (IF AllWords(words, IsCapitalized) THEN 3 ELSE 0)
       + (IF 5 <= Len(entity.value) /\ Len(entity.value) <= 50 THEN 2 ELSE 0)

event_keywords ==
    Strs({"conference", "summit", "workshop", "meeting", "seminar", "expo", "forum"})

ScoreEventEntity(entity) ==
    LET words == Split(entity.value)
    IN ConfidenceScore(entity.confidence)
       + (IF \E keyword \in event_keywords : Contains(keyword, StrLower(entity.value))
          THEN 5 ELSE 0)
       + (IF 10 <= Len(entity.value) /\ Len(entity.value) <= 100 THEN 3 ELSE 0)
       + (IF words # <<>> /\ IsUpper(<<words[1][1]>>) THEN 2 ELSE 0)

ScoreLocationEntity(entity) ==
    ConfidenceScore(entity.confidence)
    + (IF Contains(<<",">>, entity.value) THEN 5 ELSE 0)
    + (IF 3 <= Len(entity.value) /\ Len(entity.value) <= 50 THEN 3 ELSE 0)
    + (IF AllWords(Split(entity.value), LAMBDA w : IsUpper(<<Head(w)>>)) THEN 2 ELSE 0)

\* str(n) for n >= 0
RECURSIVE StrOfInt(_)
StrOfInt(n) ==
    LET digits == Chars("0123456789")
    IN IF n < 10 THEN <<digits[n + 1]>> ELSE StrOfInt(n \div 10) \o <<digits[(n % 10) + 1]>>

\* current_year is datetime.now().year
ScoreDateEntity(entity, current_year) ==
    ConfidenceScore(entity.confidence)
    + (IF Found(Rep(Set(DigitSet), 4, 4), entity.value) THEN 5 ELSE 0)
    + (IF \/ Contains(StrOfInt(current_year), entity.value)
          \/ Contains(StrOfInt(current_year + 1), entity.value)
       THEN 3 ELSE 0)
    + (IF Found(Alt(<<
                    Grp(1,
                        Cat(<<
                            Rep(Set(DigitSet), 1, 2), Set({"-", "/"}), Rep(Set(DigitSet), 1, 2),
                            Set({"-", "/"}), Rep(Set(DigitSet), 2, 4)>>)),
                    Grp(2,
                        Cat(<<
                            Plus(Set(UpperSet \cup LowerSet)), Lit(" "), Rep(Set(DigitSet), 1, 2),
                            Opt(Lit(",")), Lit(" "), Rep(Set(DigitSet), 4, 4)>>))>>), entity.value)
       THEN 2 ELSE 0)

\* scoredEntities.sort(key=score, reverse=True); scoredEntities[0][0]: the sort
\* is stable, so the first entity with the highest score.
SelectBest(list, Score(_)) ==
    list[CHOOSE i \in 1..Len(list) :
            /\ \A j \in 1..Len(list) : Score(list[j]) <= Score(list[i])
            /\ \A j \in 1..(i - 1) : Score(list[j]) < Score(list[i])]

\* A variant of the four methods that returns the last entity with the
\* highest score.
SelectBestEntityLast(entityType, list, current_year) ==
    LET Score(e) ==
            CASE entityType = "PERSON" -> ScorePersonEntity(e)
              [] entityType = "EVENT" -> ScoreEventEntity(e)
              [] entityType = "LOCATION" -> ScoreLocationEntity(e)
              [] entityType = "DATE" -> ScoreDateEntity(e, current_year)
    IN IF list = <<>> THEN None
       ELSE Some(list[CHOOSE i \in 1..Len(list) :
                         /\ \A j \in 1..Len(list) : Score(list[j]) <= Score(list[i])
                         /\ \A j \in (i + 1)..Len(list) : Score(list[j]) < Score(list[i])])

\* _selectBestPersonEntity, _selectBestEventEntity, _selectBestLocationEntity
\* and _selectBestDateEntity, by the type they serve: None for an empty list.
SelectBestEntity(entityType, list, current_year) ==
    IF list = <<>> THEN None
    ELSE Some(CASE entityType = "PERSON" -> SelectBest(list, ScorePersonEntity)
                [] entityType = "EVENT" -> SelectBest(list, ScoreEventEntity)
                [] entityType = "LOCATION" -> SelectBest(list, ScoreLocationEntity)
                [] entityType = "DATE" ->
                       SelectBest(list, LAMBDA e : ScoreDateEntity(e, current_year)))

\* entitiesByType[entityType], in list order
OfType(list, entityType) == SelectSeq(list, LAMBDA e : e.entityType = entityType)

\* _process*Entities: the best entity's value, validated and formatted, or None.
ProcessEntities(list, Score(_), Validate(_), Format(_)) ==
    IF list = <<>> THEN None
    ELSE LET bestEntity == SelectBest(list, Score)
         IN IF Validate(bestEntity.value) THEN Some(Format(bestEntity.value)) ELSE None

\* for pattern in patterns: the first pattern whose first match gives a valid
\* value decides; Value(m) is the group, stripped and trimmed.
Fallback(patterns, text, Value(_), Validate(_), Format(_)) ==
    LET First(values, valid) ==
            IF valid = {} THEN None
            ELSE Some(Format(values[CHOOSE k \in valid : \A j \in valid : k <= j]))
        Valid(found, values) ==
            First(values, {k \in 1..Len(patterns) : found[k].ok /\ Validate(values[k])})
        Valued(found) ==
            Valid(found, SeqOf([k \in 1..Len(patterns) |->
                                   IF found[k].ok THEN Value(found[k]) ELSE <<>>]))
    IN Valued(SeqOf([k \in 1..Len(patterns) |-> Search(patterns[k], text)]))

nameFallbackPatterns ==
    <<IgnoreCase(Cat(<<
                     Alt(<<Lit("name"), Lit("participant"), Lit("attendee")>>),
                     Star(Set(SpaceSet)), Lit(":"), Star(Set(SpaceSet)),
                     Grp(1,
                         Cat(<<
                             Set(UpperSet), Plus(Set(LowerSet)), Plus(Set(SpaceSet)),
                             Set(UpperSet), Plus(Set(LowerSet))>>))>>)),
      IgnoreCase(Cat(<<
                     WordB,
                     Grp(1,
                         Cat(<<
                             Set(UpperSet), Plus(Set(LowerSet)), Plus(Set(SpaceSet)),
                             Set(UpperSet), Plus(Set(LowerSet))>>)),
                     Plus(Set(SpaceSet)),
                     Alt(<<Lit("registered"), Lit("signed up"), Lit("enrolled")>>)>>)),
      IgnoreCase(Cat(<<
                     Alt(<<Lit("Mr"), Lit("Mrs"), Lit("Ms"), Lit("Dr")>>), Opt(Lit(".")),
                     Plus(Set(SpaceSet)),
                     Grp(1,
                         Cat(<<
                             Set(UpperSet), Plus(Set(LowerSet)), Plus(Set(SpaceSet)),
                             Set(UpperSet), Plus(Set(LowerSet))>>))>>))>>

eventFallbackPatterns ==
    <<IgnoreCase(Cat(<<
                     Lit("\""),
                     Grp(1,
                         Cat(<<
                             Star(Set(Not({"\""}))),
                             Alt(<<
                                 Lit("conference"), Lit("summit"), Lit("workshop"), Lit("meetup"),
                                 Lit("expo"), Lit("convention")>>),
                             Star(Set(Not({"\""})))>>)),
                     Lit("\"")>>)),
      IgnoreCase(Cat(<<
                     Alt(<<Lit("event"), Lit("conference"), Lit("summit")>>), Star(Set(SpaceSet)),
                     Lit(":"), Star(Set(SpaceSet)),
                     Grp(1, Cat(<<Set(UpperSet), Lazy(Star(Set(Not({"!", ".", "?"}))))>>)),
                     Alt(<<Lit("."), Eos>>)>>)),
      IgnoreCase(Cat(<<
                     Alt(<<Lit("attending"), Lit("joining")>>), Plus(Set(SpaceSet)),
                     Opt(Cat(<<Lit("the"), Plus(Set(SpaceSet))>>)),
                     Grp(1,
                         Cat(<<
                             Set(UpperSet), Lazy(Star(Set(Not({"!", ".", "?"})))),
                             Alt(<<
                                 Lit("conference"), Lit("summit"), Lit("workshop"), Lit("meetup"),
                                 Lit("expo")>>)>>))>>))>>

locationFallbackPatterns ==
    <<Cat(<<
          Alt(<<Lit("location"), Lit("venue"), Lit("city"), Lit("place")>>), Star(Set(SpaceSet)),
          Lit(":"), Star(Set(SpaceSet)),
          Grp(1,
              Cat(<<Set(UpperSet), Plus(Set(UpperSet \cup LowerSet \cup SpaceSet \cup {","}))>>))>>),
      Cat(<<
          Alt(<<Lit("held"), Lit("taking place"), Lit("happening"), Lit("located")>>),
          Plus(Set(SpaceSet)), Alt(<<Lit("in"), Lit("at")>>), Plus(Set(SpaceSet)),
          Grp(1,
              Cat(<<Set(UpperSet), Plus(Set(UpperSet \cup LowerSet \cup SpaceSet \cup {","}))>>))>>),
      Cat(<<
          WordB,
          Grp(1,
              Cat(<<
                  Set(UpperSet), Plus(Set(LowerSet)), Lit(","), Star(Set(SpaceSet)),
                  Set(UpperSet), Plus(Set(LowerSet))>>)),
          WordB>>)>>

dateFallbackPatterns ==
    <<IgnoreCase(Cat(<<
                     Alt(<<Lit("date"), Lit("when"), Lit("scheduled"), Lit("happening")>>),
                     Star(Set(SpaceSet)), Lit(":"), Star(Set(SpaceSet)),
                     Grp(1,
                         Plus(Set(UpperSet \cup LowerSet \cup DigitSet \cup SpaceSet \cup {",", "-", "/"})))>>)),
      IgnoreCase(Cat(<<
                     Alt(<<Lit("starts"), Lit("begins"), Lit("commences")>>), Plus(Set(SpaceSet)),
                     Opt(Cat(<<Lit("on"), Plus(Set(SpaceSet))>>)),
                     Grp(1,
                         Plus(Set(UpperSet \cup LowerSet \cup DigitSet \cup SpaceSet \cup {",", "-", "/"})))>>)),
      IgnoreCase(Cat(<<
                     WordB,
                     Grp(1,
                         Cat(<<
                             Alt(<<
                                 Lit("Jan"), Lit("Feb"), Lit("Mar"), Lit("Apr"), Lit("May"),
                                 Lit("Jun"), Lit("Jul"), Lit("Aug"), Lit("Sep"), Lit("Oct"),
                                 Lit("Nov"), Lit("Dec")>>),
                             Star(Set(LowerSet)), Plus(Set(SpaceSet)), Rep(Set(DigitSet), 1, 2),
                             Opt(Lit(",")), Plus(Set(SpaceSet)), Rep(Set(DigitSet), 4, 4)>>)),
                     WordB>>))>>

\* re.sub(r'[.!?]+$', '', value)
DropTrailingPunctuation(value) == Sub(Cat(<<Plus(Set({"!", ".", "?"})), Eos>>), <<>>, value)

ExtractNameFallback(text) ==
    Fallback(nameFallbackPatterns, text, LAMBDA m : Strip(Group(m, text, 1)),
             ValidatePersonName, CleanAndFormatPersonName)

ExtractEventFallback(text) ==
    Fallback(eventFallbackPatterns, text, LAMBDA m : Strip(Group(m, text, 1)),
             ValidateEventName, CleanAndFormatEventName)

ExtractLocationFallback(text) ==
    Fallback(locationFallbackPatterns, text,
             LAMBDA m : DropTrailingPunctuation(Strip(Group(m, text, 1))),
             ValidateLocationName, CleanAndFormatLocationName)

ExtractDateFallback(text) ==
    Fallback(dateFallbackPatterns, text,
             LAMBDA m : DropTrailingPunctuation(Strip(Group(m, text, 1))),
             ValidateDateFormat, CleanAndFormatDate)

\* A variant of _postProcessInformation that runs every fallback, whether the
\* field is set or not.
PostProcessInformationReplaces(info, originalText) ==
    LET Recalculated(filled) ==
            [filled EXCEPT !.overallConfidence = CalculateOverallConfidence(filled)]
    IN Recalculated(
           [info EXCEPT
               !.participantName = ExtractNameFallback(originalText),
               !.eventName = ExtractEventFallback(originalText),
               !.location = ExtractLocationFallback(originalText),
               !.date = ExtractDateFallback(originalText)])

\* A variant of _postProcessInformation that keeps the confidence calculated
\* after the primary pass.
PostProcessInformationStale(info, originalText) ==
    [info EXCEPT
        !.participantName = IF ~Truthy(@) THEN ExtractNameFallback(originalText) ELSE @,
        !.eventName = IF ~Truthy(@) THEN ExtractEventFallback(originalText) ELSE @,
        !.location = IF ~Truthy(@) THEN ExtractLocationFallback(originalText) ELSE @,
        !.date = IF ~Truthy(@) THEN ExtractDateFallback(originalText) ELSE @]

\* A variant of _postProcessInformation in which a fallback that finds a value
\* replaces the field also when it is set.
PostProcessInformationOverwrites(info, originalText) ==
    LET Recalculated(filled) ==
            [filled EXCEPT !.overallConfidence = CalculateOverallConfidence(filled)]
        Preferred(fallback, field) == IF Truthy(fallback) \/ ~Truthy(field) THEN fallback ELSE field
    IN Recalculated(
           [info EXCEPT
               !.participantName = Preferred(ExtractNameFallback(originalText), @),
               !.eventName = Preferred(ExtractEventFallback(originalText), @),
               !.location = Preferred(ExtractLocationFallback(originalText), @),
               !.date = Preferred(ExtractDateFallback(originalText), @)])

\* _postProcessInformation: the fallback of every field that is not set, then
\* the confidence again.
PostProcessInformation(info, originalText) ==
    LET Recalculated(filled) ==
            [filled EXCEPT !.overallConfidence = CalculateOverallConfidence(filled)]
    IN Recalculated(
           [info EXCEPT
               !.participantName = IF ~Truthy(@) THEN ExtractNameFallback(originalText) ELSE @,
               !.eventName = IF ~Truthy(@) THEN ExtractEventFallback(originalText) ELSE @,
               !.location = IF ~Truthy(@) THEN ExtractLocationFallback(originalText) ELSE @,
               !.date = IF ~Truthy(@) THEN ExtractDateFallback(originalText) ELSE @])

\* The record after the primary pass: each field from the best entity of its
\* type, then the confidence.
PrimaryPass(list, originalText, current_year) ==
    LET Calculated(selected) ==
            [selected EXCEPT !.overallConfidence = CalculateOverallConfidence(selected)]
    IN Calculated(
            [EventRegistrationInfo(originalText) EXCEPT
                !.extractedEntities = list,
                !.participantName =
                    ProcessEntities(OfType(list, "PERSON"), ScorePersonEntity,
                                    ValidatePersonName, CleanAndFormatPersonName),
                !.eventName =
                    ProcessEntities(OfType(list, "EVENT"), ScoreEventEntity,
                                    ValidateEventName, CleanAndFormatEventName),
                !.location =
                    ProcessEntities(OfType(list, "LOCATION"), ScoreLocationEntity,
                                    ValidateLocationName, CleanAndFormatLocationName),
                !.date =
                    ProcessEntities(OfType(list, "DATE"),
                                    LAMBDA e : ScoreDateEntity(e, current_year),
                                    ValidateDateFormat, CleanAndFormatDate)])

\* A variant that takes the last member of a group with the highest confidence.
MergeEntitiesLatest(list) ==
    LET SameKey(a, b) == a.entityType = b.entityType /\ StrLower(a.value) = StrLower(b.value)
        firsts == {i \in 1..Len(list) : \A j \in 1..(i - 1) : ~SameKey(list[j], list[i])}
        BestOf(i) ==
            LET group == SelectSeq(list, LAMBDA e : SameKey(e, list[i]))
                best == CHOOSE n \in 1..Len(group) :
                            /\ \A m \in 1..Len(group) :
                                   ConfidenceToScore(group[m].confidence)
                                       <= ConfidenceToScore(group[n].confidence)
                            /\ \A m \in (n + 1)..Len(group) :
                                   ConfidenceToScore(group[m].confidence)
                                       < ConfidenceToScore(group[n].confidence)
            IN group[best]
        keys == SelectSeq([i \in 1..Len(list) |-> i], LAMBDA i : i \in firsts)
    IN SeqOf([k \in 1..Len(keys) |-> BestOf(keys[k])])

\* mergeEntities: one entity per (entityType, value.lower()), in the order the
\* keys first appear: the first of its group with the highest confidence.
MergeEntities(list) ==
    LET SameKey(a, b) == a.entityType = b.entityType /\ StrLower(a.value) = StrLower(b.value)
        firsts == {i \in 1..Len(list) : \A j \in 1..(i - 1) : ~SameKey(list[j], list[i])}
        BestOf(i) ==
            SelectBest(SelectSeq(list, LAMBDA e : SameKey(e, list[i])),
                       LAMBDA e : ConfidenceToScore(e.confidence))
        keys == SelectSeq([i \in 1..Len(list) |-> i], LAMBDA i : i \in firsts)
    IN SeqOf([k \in 1..Len(keys) |-> BestOf(keys[k])])

\* A variant of processExtractedEntities that merges the entities of a key
\* before it groups them.
ProcessExtractedEntitiesMerged(list, originalText, current_year) ==
    IF list = <<>> THEN EventRegistrationInfo(originalText)
    ELSE PostProcessInformation(PrimaryPass(MergeEntities(list), originalText, current_year),
                                originalText)

\* processExtractedEntities
ProcessExtractedEntities(list, originalText, current_year) ==
    IF list = <<>> THEN EventRegistrationInfo(originalText)
    ELSE PostProcessInformation(PrimaryPass(list, originalText, current_year), originalText)

\* validateExtractedInfo
ValidateExtractedInfo(info) ==
    /\ FieldCount(info, Truthy) > 0
    /\ Truthy(info.participantName) => ValidatePersonName(info.participantName[1])
    /\ Truthy(info.eventName) => ValidateEventName(info.eventName[1])
    /\ Truthy(info.location) => ValidateLocationName(info.location[1])
    /\ Truthy(info.date) => ValidateDateFormat(info.date[1])

(***************************************************************************)
(* AdvancedTextPreprocessor (text_process.py). The configuration is the    *)
(* one _initializeConfiguration sets, which the engine never changes:      *)
(* URLs are replaced, e-mail addresses and phone numbers are kept, and     *)
(* there is no 'normalizeEventTerms' key.                                  *)
(***************************************************************************)

minTextLength == 10
maxTextLength == 10000

\* self.patterns['urlPattern']
urlPattern ==
    Cat(<<
        Lit("http"), Opt(Set({"s"})), Lit("://"),
        Plus(Alt(<<
                 Set(UpperSet \cup LowerSet), Set(DigitSet),
                 Set(UpperSet \cup DigitSet \cup {"$", "%", "&", "'", "(", ")", "*", "+", ",", "-", ".", "/", ":", ";", "<", "=", ">", "?", "@", "[", "\\", "]", "^", "_"}),
                 Set({"!", "(", ")", "*", ",", "\\"}),
                 Cat(<<
                     Lit("%"),
                     Set(DigitSet \cup {"A", "B", "C", "D", "E", "F", "a", "b", "c", "d", "e", "f"}),
                     Set(DigitSet \cup {"A", "B", "C", "D", "E", "F", "a", "b", "c", "d", "e", "f"})>>)>>))>>)

\* cleanText after the URL step: the commonReplacements whose key is in the
\* model's alphabet, in dict order (str.replace), then the two runs of
\* punctuation and the white space. unicodedata.normalize('NFKD', ...) leaves
\* every character of the alphabet as it is.
cleanSteps ==
    <<<<urlPattern, <<Text("[URL]")>>>>,
      <<Lit("&amp;"), <<Text("and")>>>>,
      <<Lit("&"), <<Text("and")>>>>,
      <<Lit("@"), <<Text("at")>>>>,
      <<Lit("#"), <<Text("number")>>>>,
      <<Lit("%"), <<Text("percent")>>>>,
      <<Lit("$"), <<Text("dollar")>>>>,
      <<AtLeast(Grp(1, Set({"!", ".", "?"})), 2), <<Ref(1)>>>>,
      <<AtLeast(Grp(1, Set({",", ":", ";"})), 2), <<Ref(1)>>>>,
      <<Plus(Set(SpaceSet)), <<Text(" ")>>>>>>

\* AdvancedTextPreprocessor.cleanText
CleanText(text) == IF text = <<>> THEN <<>> ELSE Strip(SubEach(cleanSteps, text))

\* _normalizeLocationTerms: re.sub(r"\b" + re.escape(abbreviation) + r"\b", fullForm, text,
\* flags=re.IGNORECASE) for each item of the dict, in its order.
locationReplacements ==
    <<<<IgnoreCase(Cat(<<WordB, Lit("nyc"), WordB>>)), <<Text("new york city")>>>>,
      <<IgnoreCase(Cat(<<WordB, Lit("sf"), WordB>>)), <<Text("san francisco")>>>>,
      <<IgnoreCase(Cat(<<WordB, Lit("la"), WordB>>)), <<Text("los angeles")>>>>,
      <<IgnoreCase(Cat(<<WordB, Lit("uk"), WordB>>)), <<Text("united kingdom")>>>>,
      <<IgnoreCase(Cat(<<WordB, Lit("usa"), WordB>>)), <<Text("united states")>>>>,
      <<IgnoreCase(Cat(<<WordB, Lit("uae"), WordB>>)), <<Text("united arab emirates")>>>>,
      <<IgnoreCase(Cat(<<WordB, Lit("u.s."), WordB>>)), <<Text("united states")>>>>,
      <<IgnoreCase(Cat(<<WordB, Lit("u.s.a."), WordB>>)), <<Text("united states")>>>>,
      <<IgnoreCase(Cat(<<WordB, Lit("ny"), WordB>>)), <<Text("new york")>>>>,
      <<IgnoreCase(Cat(<<WordB, Lit("ca"), WordB>>)), <<Text("california")>>>>,
      <<IgnoreCase(Cat(<<WordB, Lit("tx"), WordB>>)), <<Text("texas")>>>>,
      <<IgnoreCase(Cat(<<WordB, Lit("fl"), WordB>>)), <<Text("florida")>>>>>>

\* _normalizeDateTerms: the months, then the two slash forms.
dateTermReplacements ==
    <<<<IgnoreCase(Cat(<<WordB, Lit("january"), WordB>>)), <<Text("jan")>>>>,
      <<IgnoreCase(Cat(<<WordB, Lit("february"), WordB>>)), <<Text("feb")>>>>,
      <<IgnoreCase(Cat(<<WordB, Lit("march"), WordB>>)), <<Text("mar")>>>>,
      <<IgnoreCase(Cat(<<WordB, Lit("april"), WordB>>)), <<Text("apr")>>>>,
      <<IgnoreCase(Cat(<<WordB, Lit("may"), WordB>>)), <<Text("may")>>>>,
      <<IgnoreCase(Cat(<<WordB, Lit("june"), WordB>>)), <<Text("jun")>>>>,
      <<IgnoreCase(Cat(<<WordB, Lit("july"), WordB>>)), <<Text("jul")>>>>,
      <<IgnoreCase(Cat(<<WordB, Lit("august"), WordB>>)), <<Text("aug")>>>>,
      <<IgnoreCase(Cat(<<WordB, Lit("september"), WordB>>)), <<Text("sep")>>>>,
      <<IgnoreCase(Cat(<<WordB, Lit("october"), WordB>>)), <<Text("oct")>>>>,
      <<IgnoreCase(Cat(<<WordB, Lit("november"), WordB>>)), <<Text("nov")>>>>,
      <<IgnoreCase(Cat(<<WordB, Lit("december"), WordB>>)), <<Text("dec")>>>>,
      <<Cat(<<
            Grp(1, Rep(Set(DigitSet), 1, 2)), Lit("/"), Grp(2, Rep(Set(DigitSet), 1, 2)),
            Lit("/"), Grp(3, Rep(Set(DigitSet), 4, 4))>>), <<Ref(1), Text("-"), Ref(2), Text("-"), Ref(3)>>>>,
      <<Cat(<<
            Grp(1, Rep(Set(DigitSet), 4, 4)), Lit("/"), Grp(2, Rep(Set(DigitSet), 1, 2)),
            Lit("/"), Grp(3, Rep(Set(DigitSet), 1, 2))>>), <<Ref(1), Text("-"), Ref(2), Text("-"), Ref(3)>>>>>>

NormalizeLocationTerms(text) == SubEach(locationReplacements, text)

NormalizeDateTerms(text) == SubEach(dateTermReplacements, text)

\* AdvancedTextPreprocessor.normalizeText
NormalizeText(text) ==
    IF text = <<>> THEN <<>>
    ELSE Strip(SubEach(<<<<Cat(<<
                               Star(Set(SpaceSet)), Grp(1, Set({"!", ",", ".", ":", ";", "?"})),
                               Star(Set(SpaceSet))>>), <<Ref(1), Text(" ")>>>>, <<Plus(Set(SpaceSet)), <<Text(" ")>>>>>>,
                       NormalizeDateTerms(NormalizeLocationTerms(StrLower(text)))))

\* _enhanceKeywordContext: the registration keywords, then the event keywords.
registrationKeywordTags ==
    <<<<IgnoreCase(Cat(<<WordB, Lit("registered"), WordB>>)), <<Text("[REG_ACTION]registered[/REG_ACTION]")>>>>,
      <<IgnoreCase(Cat(<<WordB, Lit("signed up"), WordB>>)), <<Text("[REG_ACTION]signed up[/REG_ACTION]")>>>>,
      <<IgnoreCase(Cat(<<WordB, Lit("enrolled"), WordB>>)), <<Text("[REG_ACTION]enrolled[/REG_ACTION]")>>>>,
      <<IgnoreCase(Cat(<<WordB, Lit("joined"), WordB>>)), <<Text("[REG_ACTION]joined[/REG_ACTION]")>>>>,
      <<IgnoreCase(Cat(<<WordB, Lit("participated"), WordB>>)), <<Text("[REG_ACTION]participated[/REG_ACTION]")>>>>,
      <<IgnoreCase(Cat(<<WordB, Lit("attended"), WordB>>)), <<Text("[REG_ACTION]attended[/REG_ACTION]")>>>>,
      <<IgnoreCase(Cat(<<WordB, Lit("booked"), WordB>>)), <<Text("[REG_ACTION]booked[/REG_ACTION]")>>>>,
      <<IgnoreCase(Cat(<<WordB, Lit("reserved"), WordB>>)), <<Text("[REG_ACTION]reserved[/REG_ACTION]")>>>>,
      <<IgnoreCase(Cat(<<WordB, Lit("confirmed"), WordB>>)), <<Text("[REG_ACTION]confirmed[/REG_ACTION]")>>>>,
      <<IgnoreCase(Cat(<<WordB, Lit("applied"), WordB>>)), <<Text("[REG_ACTION]applied[/REG_ACTION]")>>>>,
      <<IgnoreCase(Cat(<<WordB, Lit("registered for"), WordB>>)), <<Text("[REG_ACTION]registered for[/REG_ACTION]")>>>>,
      <<IgnoreCase(Cat(<<WordB, Lit("signed up for"), WordB>>)), <<Text("[REG_ACTION]signed up for[/REG_ACTION]")>>>>,
      <<IgnoreCase(Cat(<<WordB, Lit("enrolled in"), WordB>>)), <<Text("[REG_ACTION]enrolled in[/REG_ACTION]")>>>>,
      <<IgnoreCase(Cat(<<WordB, Lit("joined the"), WordB>>)), <<Text("[REG_ACTION]joined the[/REG_ACTION]")>>>>,
      <<IgnoreCase(Cat(<<WordB, Lit("participated in"), WordB>>)), <<Text("[REG_ACTION]participated in[/REG_ACTION]")>>>>>>

eventKeywordTags ==
    <<<<IgnoreCase(Cat(<<WordB, Lit("conference"), WordB>>)), <<Text("[EVENT_TYPE]conference[/EVENT_TYPE]")>>>>,
      <<IgnoreCase(Cat(<<WordB, Lit("summit"), WordB>>)), <<Text("[EVENT_TYPE]summit[/EVENT_TYPE]")>>>>,
      <<IgnoreCase(Cat(<<WordB, Lit("workshop"), WordB>>)), <<Text("[EVENT_TYPE]workshop[/EVENT_TYPE]")>>>>,
      <<IgnoreCase(Cat(<<WordB, Lit("seminar"), WordB>>)), <<Text("[EVENT_TYPE]seminar[/EVENT_TYPE]")>>>>,
      <<IgnoreCase(Cat(<<WordB, Lit("meetup"), WordB>>)), <<Text("[EVENT_TYPE]meetup[/EVENT_TYPE]")>>>>,
      <<IgnoreCase(Cat(<<WordB, Lit("symposium"), WordB>>)), <<Text("[EVENT_TYPE]symposium[/EVENT_TYPE]")>>>>,
      <<IgnoreCase(Cat(<<WordB, Lit("expo"), WordB>>)), <<Text("[EVENT_TYPE]expo[/EVENT_TYPE]")>>>>,
      <<IgnoreCase(Cat(<<WordB, Lit("convention"), WordB>>)), <<Text("[EVENT_TYPE]convention[/EVENT_TYPE]")>>>>,
      <<IgnoreCase(Cat(<<WordB, Lit("forum"), WordB>>)), <<Text("[EVENT_TYPE]forum[/EVENT_TYPE]")>>>>,
      <<IgnoreCase(Cat(<<WordB, Lit("congress"), WordB>>)), <<Text("[EVENT_TYPE]congress[/EVENT_TYPE]")>>>>,
      <<IgnoreCase(Cat(<<WordB, Lit("festival"), WordB>>)), <<Text("[EVENT_TYPE]festival[/EVENT_TYPE]")>>>>,
      <<IgnoreCase(Cat(<<WordB, Lit("competition"), WordB>>)), <<Text("[EVENT_TYPE]competition[/EVENT_TYPE]")>>>>,
      <<IgnoreCase(Cat(<<WordB, Lit("tournament"), WordB>>)), <<Text("[EVENT_TYPE]tournament[/EVENT_TYPE]")>>>>,
      <<IgnoreCase(Cat(<<WordB, Lit("championship"), WordB>>)), <<Text("[EVENT_TYPE]championship[/EVENT_TYPE]")>>>>,
      <<IgnoreCase(Cat(<<WordB, Lit("ceremony"), WordB>>)), <<Text("[EVENT_TYPE]ceremony[/EVENT_TYPE]")>>>>,
      <<IgnoreCase(Cat(<<WordB, Lit("celebration"), WordB>>)), <<Text("[EVENT_TYPE]celebration[/EVENT_TYPE]")>>>>,
      <<IgnoreCase(Cat(<<WordB, Lit("gathering"), WordB>>)), <<Text("[EVENT_TYPE]gathering[/EVENT_TYPE]")>>>>,
      <<IgnoreCase(Cat(<<WordB, Lit("webinar"), WordB>>)), <<Text("[EVENT_TYPE]webinar[/EVENT_TYPE]")>>>>,
      <<IgnoreCase(Cat(<<WordB, Lit("training"), WordB>>)), <<Text("[EVENT_TYPE]training[/EVENT_TYPE]")>>>>,
      <<IgnoreCase(Cat(<<WordB, Lit("lecture"), WordB>>)), <<Text("[EVENT_TYPE]lecture[/EVENT_TYPE]")>>>>,
      <<IgnoreCase(Cat(<<WordB, Lit("session"), WordB>>)), <<Text("[EVENT_TYPE]session[/EVENT_TYPE]")>>>>,
      <<IgnoreCase(Cat(<<WordB, Lit("event"), WordB>>)), <<Text("[EVENT_TYPE]event[/EVENT_TYPE]")>>>>,
      <<IgnoreCase(Cat(<<WordB, Lit("show"), WordB>>)), <<Text("[EVENT_TYPE]show[/EVENT_TYPE]")>>>>>>

EnhanceKeywordContext(text) == SubEach(eventKeywordTags, SubEach(registrationKeywordTags, text))

\* _fixCommonErrors: each item of the dict, with re.IGNORECASE.
commonErrors ==
    <<<<IgnoreCase(Cat(<<WordB, Lit("l"), WordB>>)), <<Text("I")>>>>,
      <<IgnoreCase(Cat(<<WordB, Lit("O"), WordB>>)), <<Text("0")>>>>,
      <<IgnoreCase(Lit("rneetup")), <<Text("meetup")>>>>,
      <<IgnoreCase(Lit("conferenoe")), <<Text("conference")>>>>,
      <<IgnoreCase(Lit("reglstered")), <<Text("registered")>>>>,
      <<IgnoreCase(Lit("symposlum")), <<Text("symposium")>>>>,
      <<IgnoreCase(Lit("partlclpated")), <<Text("participated")>>>>,
      <<IgnoreCase(Lit("technlcal")), <<Text("technical")>>>>,
      <<IgnoreCase(Lit("lnformatlon")), <<Text("information")>>>>>>

FixCommonErrors(text) == SubEach(commonErrors, text)

\* _standardizeFormatting
StandardizeFormatting(text) ==
    Strip(SubEach(<<<<Cat(<<
                          Grp(1, Set({"!", ".", "?"})), Star(Set(SpaceSet)),
                          Grp(2, Set(UpperSet))>>), <<Ref(1), Text(" "), Ref(2)>>>>,
                    <<Cat(<<Grp(1, Set({",", ":", ";"})), Star(Set(SpaceSet))>>), <<Ref(1), Text(" ")>>>>,
                    <<Cat(<<Star(Set(SpaceSet)), Lit("("), Star(Set(SpaceSet))>>), <<Text(" (")>>>>,
                    <<Cat(<<Star(Set(SpaceSet)), Lit(")"), Star(Set(SpaceSet))>>), <<Text(") ")>>>>,
                    <<Cat(<<Star(Set(SpaceSet)), Lit("\""), Star(Set(SpaceSet))>>), <<Text("\"")>>>>,
                    <<Cat(<<Star(Set(SpaceSet)), Lit("'"), Star(Set(SpaceSet))>>), <<Text("'")>>>>,
                    <<Plus(Set(SpaceSet)), <<Text(" ")>>>>>>, text))

\* _applyAdvancedPreprocessing
ApplyAdvancedPreprocessing(text) ==
    StandardizeFormatting(FixCommonErrors(EnhanceKeywordContext(text)))

\* preprocessText raises ValueError for these texts.
PreprocessTextRaises(text) ==
    \/ text = <<>>
    \/ Len(Strip(text)) < minTextLength
    \/ Len(Strip(text)) > maxTextLength

\* AdvancedTextPreprocessor.preprocessText, for a text it does not reject.
PreprocessText(text) ==
    Strip(ApplyAdvancedPreprocessing(NormalizeText(CleanText(Strip(text)))))

(***************************************************************************)
(* ComprehensiveExtractionEngine (extraction_engine.py), ExtractionResult  *)
(* and ProcessingMetrics (data_model.py)                                   *)
(***************************************************************************)

\* The keys of self.pipelineConfig.
ConfigKeys ==
    {"enablePreprocessing", "enableAdvancedNER", "enablePostProcessing",
     "enableFallbackExtraction", "enableValidation", "enableHeuristics",
     "enableTemporalAnalysis"}

\* _initializeComponents: every key True.
DefaultPipelineConfig == [key \in ConfigKeys |-> TRUE]

\* _getExtractionMethodDescription: the flag of each method and its name, in
\* the order of the if statements.
methodNames ==
    <<<<"enablePreprocessing", "Advanced Text Preprocessing">>,
      <<"enableAdvancedNER", "Hybrid Named Entity Recognition">>,
      <<"enableHeuristics", "Rule-based Heuristics">>,
      <<"enableTemporalAnalysis", "Temporal Analysis">>,
      <<"enablePostProcessing", "Information Processing & Validation">>,
      <<"enableFallbackExtraction", "Fallback Pattern Matching">>>>

\* separator.join(methods); the arrow of the separator is written "->".
GetExtractionMethodDescription(config) ==
    LET methods == SelectSeq(methodNames, LAMBDA method : config[method[1]])
    IN Join(Chars(" -> "), SeqOf([i \in 1..Len(methods) |-> Chars(methods[i][2])]))

\* ExtractionResult.__post_init__ raises ValueError; registrationInfo is an
\* EventRegistrationInfo in every call the engine makes.
ExtractionResultPostInitRaises(processingTimeMs, extractionMethod) ==
    processingTimeMs < 0 \/ extractionMethod = <<>>

ExtractionResult(registrationInfo, processingTimeMs, extractionMethod, errorMessages,
                 warnings) ==
    [registrationInfo |-> registrationInfo, processingTimeMs |-> processingTimeMs,
     extractionMethod |-> extractionMethod, errorMessages |-> errorMessages,
     warnings |-> warnings]

\* ExtractionResult.isSuccessful
IsSuccessful(result) ==
    Len(result.errorMessages) = 0 /\ GetCompletionPercentage(result.registrationInfo) > 0

\* _createErrorResult, when the ExtractionResult can be built.
CreateErrorResult(errorMessage, processingTime, config) ==
    ExtractionResult(EventRegistrationInfo(<<>>), processingTime,
                     GetExtractionMethodDescription(config), <<errorMessage>>,
                     <<"Extraction process encountered errors">>)

\* _finalizeResult, when the ExtractionResult can be built. The first warning
\* carries the percentage its f-string formats.
FinalizeResult(registrationInfo, isValid, processingTime, config) ==
    ExtractionResult(
        registrationInfo, processingTime, GetExtractionMethodDescription(config), <<>>,
        (IF GetCompletionPercentage(registrationInfo) < 80
         THEN <<<<"Extraction incomplete", GetCompletionPercentage(registrationInfo)>>>>
         ELSE <<>>)
        \o (IF ~isValid THEN <<"Some extracted information may not be accurate">> ELSE <<>>))

\* ProcessingMetrics(): the running averages are kept as the sums they
\* average, over totalProcessed.
InitialMetrics ==
    [totalProcessed |-> 0, successfulExtractions |-> 0, processingTimeMsSum |-> 0,
     completionPercentageSum |-> 0,
     confidenceDistribution |-> [c \in {} |-> 0]]

\* ProcessingMetrics.updateMetrics
MetricsUpdated(m, result) ==
    LET confidence == result.registrationInfo.overallConfidence
    IN [totalProcessed |-> m.totalProcessed + 1,
        successfulExtractions |->
            m.successfulExtractions + (IF IsSuccessful(result) THEN 1 ELSE 0),
        processingTimeMsSum |-> m.processingTimeMsSum + result.processingTimeMs,
        completionPercentageSum |->
            m.completionPercentageSum + GetCompletionPercentage(result.registrationInfo),
        confidenceDistribution |->
            [c \in DOMAIN m.confidenceDistribution \cup {confidence} |->
                (IF c \in DOMAIN m.confidenceDistribution
                 THEN m.confidenceDistribution[c] ELSE 0)
                + (IF c = confidence THEN 1 ELSE 0)]]

historyLimit == 100

\* _updateMetrics with the cut keeping the first historyLimit records.
HistoryUpdatedKeepsFirst(history, result) ==
    LET extended ==
            Append(history,
                   [processingTime |-> result.processingTimeMs,
                    completionPercentage |-> GetCompletionPercentage(result.registrationInfo),
                    confidence |-> result.registrationInfo.overallConfidence,
                    successful |-> IsSuccessful(result),
                    entitiesExtracted |-> Len(result.registrationInfo.extractedEntities)])
    IN IF Len(extended) > historyLimit
       THEN SubSeq(extended, 1, historyLimit)
       ELSE extended

\* _updateMetrics: the record appended to self.processingHistory (without its
\* timestamp), and the list cut to its last historyLimit records.
HistoryUpdated(history, result) ==
    LET extended ==
            Append(history,
                   [processingTime |-> result.processingTimeMs,
                    completionPercentage |-> GetCompletionPercentage(result.registrationInfo),
                    confidence |-> result.registrationInfo.overallConfidence,
                    successful |-> IsSuccessful(result),
                    entitiesExtracted |-> Len(result.registrationInfo.extractedEntities)])
    IN IF Len(extended) > historyLimit
       THEN SubSeq(extended, Len(extended) - historyLimit + 1, Len(extended))
       ELSE extended

\* configurePipeline: the keys of config that the pipeline knows, assigned.
ConfiguredPipeline(current, config) ==
    [key \in DOMAIN current |-> IF key \in DOMAIN config THEN config[key] ELSE current[key]]

(***************************************************************************)
(* The texts of the model, and the results of the pipeline's stages on     *)
(* them, computed once.                                                    *)
(***************************************************************************)

Texts ==
    {Chars(""), Chars("  "), Chars("in Paris"), Chars("venue: Hall"),
     Chars("John Smith met John Smith"), Chars("in Paris name: al bo venue: Hall")}

\* datetime.now().year
Years == {2026}

\* _preprocessText: the text itself when the step is disabled or the
\* preprocessor raised (preprocessed is None), what it returned otherwise.
EnginePreprocessText(config, text, preprocessed) ==
    IF ~config["enablePreprocessing"] THEN text
    ELSE IF preprocessed = None THEN text
    ELSE preprocessed[1]

\* What the components return for a text:
\*   preprocessed   textPreprocessor.preprocessText(text), None when it raises;
\*   extracted      entityExtractor.extractEntities(t) for the text and for its
\*                  preprocessed form;
\*   processed      informationProcessor.processExtractedEntities(list, text)
\*                  for the empty list and the lists extracted above, in each
\*                  year of the model.
StagesProcessed(text, preprocessed, extracted) ==
    [preprocessed |-> preprocessed,
     extracted |-> extracted,
     processed |->
         [list \in {<<>>} \cup {extracted[t].entities : t \in DOMAIN extracted} |->
             [year \in Years |-> ProcessExtractedEntities(list, text, year)]]]

StagesExtracted(text, preprocessed) ==
    StagesProcessed(text, preprocessed,
                    [t \in {text} \cup {preprocessed[i] : i \in DOMAIN preprocessed} |->
                        ExtractEntitiesResult(t)])

Stages(text) ==
    StagesExtracted(text,
                    IF PreprocessTextRaises(text) THEN None ELSE Some(PreprocessText(text)))

\* Stages(text), computed once for each text of the model.
stages == [text \in Texts |-> Stages(text)]

\* The lists processExtractedEntities is called with for a text.
EntityLists(stage) == DOMAIN stage.processed

\* extractInformation from "Step 1" on, when _finalizeResult can build the
\* result: the result, and how the extractor's call ended.
PipelineRun(config, text, processingTime, year, stage) ==
    LET Finalized(extraction, registrationInfo) ==
            [result |->
                 FinalizeResult(registrationInfo,
                                IF config["enableValidation"]
                                THEN ValidateExtractedInfo(registrationInfo) ELSE TRUE,
                                processingTime, config),
             outcome |-> extraction.outcome, exception |-> extraction.exception]
        Processed(extraction) ==
            Finalized(extraction, stage.processed[extraction.entities][year])
    IN Processed(stage.extracted[EnginePreprocessText(config, text, stage.preprocessed)])

(***************************************************************************)
(* extraction_service.py                                                   *)
(***************************************************************************)

\* self.config of the service, as _initializeConfiguration sets it.
serviceConfig ==
    [defaultTemplateType |-> "standard", enableBatchProcessing |-> TRUE, maxBatchSize |-> 100,
     enableCaching |-> TRUE, logProcessingMetrics |-> TRUE]

cacheMaxSize == 50

\* The shortest stripped text _validateInput accepts.
minServiceTextLength == 10

\* The keys of templateGenerator.templates, in the order of the dictionary.
templates ==
    <<"standard", "detailed", "compact", "json", "xml", "html", "email", "markdown">>

\* _validateInput, for a str
ServiceValidateInput(text) ==
    /\ text # <<>>
    /\ Strip(text) # <<>>
    /\ Len(Strip(text)) >= minServiceTextLength

\* _generateCacheKey: the MD5 digest of the stripped text followed by the
\* template type. The digest is taken to be free of collisions, so the key
\* is the string that is hashed.
GenerateCacheKey(text, templateType) == Strip(text) \o Chars(templateType)

\* self.resultCache is a dict, which keeps its keys in insertion order: the
\* model holds it as the sequence of its items in that order.
CacheKeys(cache) == {cache[i].key : i \in 1..Len(cache)}

\* A variant of the lookup that finds nothing.
CacheLookupMisses(cache, key) == None

\* `cacheKey in self.resultCache` and self.resultCache[cacheKey]: the stored
\* response as an Optional.
CacheLookup(cache, key) ==
    IF key \in CacheKeys(cache)
    THEN Some(cache[CHOOSE i \in 1..Len(cache) : cache[i].key = key].response)
    ELSE None

\* self.resultCache[key] = result: a new key goes to the end, an existing key
\* keeps its place.
CacheAssigned(cache, key, result) ==
    IF key \in CacheKeys(cache)
    THEN [i \in 1..Len(cache) |->
             IF cache[i].key = key THEN [key |-> key, response |-> result] ELSE cache[i]]
    ELSE Append(cache, [key |-> key, response |-> result])

\* A variant of _cacheResult that removes the entry stored last.
CacheResultEvictsNewest(cache, key, result) ==
    CacheAssigned(IF Len(cache) >= cacheMaxSize THEN SubSeq(cache, 1, Len(cache) - 1)
                  ELSE cache,
                  key, result)

\* A variant of _cacheResult that makes room only when the cache holds more
\* than cacheMaxSize entries.
CacheResultLate(cache, key, result) ==
    CacheAssigned(IF Len(cache) > cacheMaxSize THEN Tail(cache) ELSE cache, key, result)

\* _cacheResult: next(iter(self.resultCache)) is the first key of the dict.
CacheResult(cache, key, result) ==
    CacheAssigned(IF Len(cache) >= cacheMaxSize THEN Tail(cache) ELSE cache, key, result)

\* str(exc) of the ValueError generateTemplate raises for a type it does not
\* know.
UnknownTemplateError(templateType) ==
    "Unknown template type: " \o templateType
        \o ". Available types: ['standard', 'detailed', 'compact', 'json', 'xml', 'html', "
        \o "'email', 'markdown']"

\* templateGenerator.generateTemplate(result, templateType) for a known type.
\* The rendering is not modelled: the output stands for the text rendered
\* from the record with the template of that type.
GenerateTemplate(result, templateType) ==
    [template |-> templateType,
     participantName |-> result.registrationInfo.participantName,
     eventName |-> result.registrationInfo.eventName,
     location |-> result.registrationInfo.location,
     date |-> result.registrationInfo.date,
     overallConfidence |-> result.registrationInfo.overallConfidence]

\* The response extractInformation prepares from the engine's result.
\* timestamp is registrationInfo.extractionTimestamp, the reading of the clock
\* when the record was built.
ServiceResponse(result, templateType, timestamp) ==
    [success |-> IsSuccessful(result),
     extractedData |->
         [participantName |-> result.registrationInfo.participantName,
          eventName |-> result.registrationInfo.eventName,
          location |-> result.registrationInfo.location,
          date |-> result.registrationInfo.date],
     formattedOutput |-> GenerateTemplate(result, templateType),
     metadata |->
         [confidence |-> result.registrationInfo.overallConfidence,
          completionPercentage |-> GetCompletionPercentage(result.registrationInfo),
          processingTimeMs |-> result.processingTimeMs,
          extractionMethod |-> result.extractionMethod,
          entityCount |-> Len(result.registrationInfo.extractedEntities),
          timestamp |-> Some(timestamp)],
     warnings |-> result.warnings,
     errors |-> result.errorMessages]

\* _createErrorResponse
CreateErrorResponse(errorMessage) ==
    [success |-> FALSE,
     error |-> errorMessage,
     extractedData |->
         [participantName |-> None, eventName |-> None, location |-> None, date |-> None],
     formattedOutput |-> "Error: " \o errorMessage,
     metadata |->
         [confidence |-> "UNKNOWN", completionPercentage |-> 0, processingTimeMs |-> 0,
          extractionMethod |-> "ERROR", entityCount |-> 0, timestamp |-> None],
     warnings |-> <<>>,
     errors |-> <<errorMessage>>]

\* The objects a service call reads and writes: the service's cache and
\* lastError, and the engine's metrics, history and extractor.
ServiceObjects(cache, error, m, history, extractor) ==
    [resultCache |-> cache, lastError |-> error, metrics |-> m,
     processingHistory |-> history, extractorState |-> extractor]

\* service.extractInformation(text, templateType) from a state s of these
\* objects: the state it leaves and the response it returns. config is the
\* engine's pipeline configuration, stage what the engine's components
\* return for the text, and the clock is read as the number of extractions
\* made so far. An exception of the engine or of the template generator
\* reaches the except clause of the method.
ServiceExtractInformation(s, config, text, templateType, year, stage) ==
    IF ~ServiceValidateInput(text)
    THEN [after |-> [s EXCEPT !.lastError = None],
          response |-> CreateErrorResponse("Invalid input text")]
    ELSE LET cacheKey == GenerateCacheKey(text, templateType)
             cached == IF serviceConfig.enableCaching
                       THEN CacheLookup(s.resultCache, cacheKey) ELSE None
             Failed(after, exception) ==
                 [after |-> [after EXCEPT !.lastError = Some(exception)],
                  response |-> CreateErrorResponse("Service error: " \o exception)]
             Extracted(run) ==
                 LET extracted ==
                         [s EXCEPT
                             !.lastError = None,
                             !.extractorState = ExtractorAfter(@, run.outcome, run.exception)]
                     updated ==
                         [extracted EXCEPT
                             !.metrics = MetricsUpdated(@, run.result),
                             !.processingHistory = HistoryUpdated(@, run.result)]
                     response ==
                         ServiceResponse(run.result, templateType,
                                         extracted.extractorState.extractionCount)
                 IN IF ExtractionResultPostInitRaises(
                           0, GetExtractionMethodDescription(config))
                    THEN Failed(extracted, "extractionMethod must be a non-empty string")
                    ELSE IF \A i \in 1..Len(templates) : templates[i] # templateType
                    THEN Failed(updated, UnknownTemplateError(templateType))
                    ELSE [after |->
                              IF serviceConfig.enableCaching
                              THEN [updated EXCEPT
                                       !.resultCache = CacheResult(@, cacheKey, response)]
                              ELSE updated,
                          response |-> response]
         IN IF cached # None
            THEN [after |-> [s EXCEPT !.lastError = None], response |-> cached[1]]
            ELSE Extracted(PipelineRun(config, text, 0, year, stage))

\* service.resetService(): engine.resetMetrics(), the cache cleared.
ServiceReset(s) ==
    [s EXCEPT !.metrics = InitialMetrics, !.processingHistory = <<>>,
              !.resultCache = <<>>, !.lastError = None]

\* The for loop of service.extractBatch(texts, templateType): the state after
\* the calls of extractInformation, and the responses in the order of texts.
RECURSIVE BatchLoop(_, _, _, _, _, _)
BatchLoop(s, config, texts, templateType, year, stageOf) ==
    IF texts = <<>> THEN [after |-> s, results |-> <<>>]
    ELSE LET first == ServiceExtractInformation(s, config, texts[1], templateType, year,
                                                stageOf[texts[1]])
             rest == BatchLoop(first.after, config, Tail(texts), templateType, year, stageOf)
         IN [after |-> rest.after, results |-> <<first.response>> \o rest.results]
(***************************************************************************)
(* Specification of the overlap resolver on bounded inputs.                *)
(***************************************************************************)

MaxEntities == 3
Positions == 0 .. 3

\* Entities as the resolver reads them, with start < end.
SpanEntities ==
    {e \in [startPosition : Positions, endPosition : Positions,
            confidence : ExtractionConfidence] : e.startPosition < e.endPosition}

RECURSIVE ListsUpTo(_, _)
ListsUpTo(S, n) ==
    IF n = 0 THEN {<<>>}
    ELSE LET shorter == ListsUpTo(S, n - 1)
         IN shorter \cup {Append(l, e) : l \in {s \in shorter : Len(s) = n - 1}, e \in S}

ResolverIdle ==
    /\ entities = <<>>
    /\ cleaned = NoResult
    /\ firstResult = NoResult
    /\ rerun = NoResult
    /\ resolverCalls = 0

ScorerIdle ==
    /\ scorerText = <<>>
    /\ scored = <<>>
    /\ confidences = <<>>
    /\ contextScores = <<>>

AggregatorIdle ==
    /\ aggregated = NoResult
    /\ overall = NoResult

MergerIdle ==
    /\ toMerge = <<>>
    /\ merged = NoResult

\* Two clients that call extractInformation on the same engine, each from a
\* thread of its own.
Clients == {"A", "B"}

ConcurrentIdle ==
    /\ pc = [c \in Clients |-> "start"]
    /\ loaded = [c \in Clients |-> 0]
    /\ request = [c \in Clients |-> NoResult]

EntityIdle ==
    /\ entityArgs = NoResult
    /\ constructed = NoResult

FormatterIdle ==
    /\ formatter = NoResult
    /\ unformatted = <<>>
    /\ formatted = NoResult
    /\ reformatted = NoResult

SelectorIdle ==
    /\ selectType = NoResult
    /\ candidates = <<>>
    /\ selection = NoResult

ProcessorIdle ==
    /\ processorText = <<>>
    /\ toProcess = <<>>
    /\ infoAfter = NoResult

ServiceIdle ==
    /\ resultCache = <<>>
    /\ serviceLastError = None
    /\ issued = 0
    /\ lastHit = None
    /\ serviceCall = [op |-> "none"]

NoCall == [op |-> "none"]

\* The engine and its components as __init__ leaves them, before any call.
EngineIdle ==
    /\ pipelineConfig = DefaultPipelineConfig
    /\ metrics = InitialMetrics
    /\ processingHistory = <<>>
    /\ extractorState = [extractionCount |-> 0, successfulExtractions |-> 0,
                         lastError |-> "None"]
    /\ lastCall = NoCall

InitResolver ==
    /\ entities \in ListsUpTo(SpanEntities, MaxEntities)
    /\ cleaned = NoResult
    /\ firstResult = NoResult
    /\ rerun = NoResult
    /\ resolverCalls = 0
    /\ ScorerIdle
    /\ AggregatorIdle
    /\ MergerIdle
    /\ ConcurrentIdle
    /\ EntityIdle
    /\ FormatterIdle
    /\ SelectorIdle
    /\ ProcessorIdle
    /\ ServiceIdle
    /\ EngineIdle

\* cleaned = self._removeDuplicatesAndOverlaps(entities): the caller's list is
\* sorted in place and a new list is returned.
ResolveCall ==
    /\ resolverCalls = 0
    /\ entities' = SortByStart(entities)
    /\ cleaned' = RemoveDuplicatesAndOverlaps(entities)
    /\ firstResult' = cleaned'
    /\ rerun' = rerun
    /\ resolverCalls' = 1
    /\ UNCHANGED exceptResolver

\* self._removeDuplicatesAndOverlaps(cleaned): the resolver run on the list it
\* returned, which it sorts in place.
ResolveAgain ==
    /\ resolverCalls = 1
    /\ cleaned' = SortByStart(cleaned)
    /\ rerun' = RemoveDuplicatesAndOverlaps(cleaned)
    /\ UNCHANGED <<entities, firstResult>>
    /\ resolverCalls' = 2
    /\ UNCHANGED exceptResolver

NextResolver == ResolveCall \/ ResolveAgain

SpecResolver == InitResolver /\ [][NextResolver]_vars

(***************************************************************************)
(* Specification of the context scorer on bounded inputs: an entity "Ee"   *)
(* with keywords at the edges of its context window, inside and outside.   *)
(***************************************************************************)

MaxScored == 2
MaxApplications == 3

Filler(n) == Repeat("x", n)

\* Sample texts, each with the span of its entity "Ee".
ScorerTexts ==
    LET ee == Chars("Ee")
        edge == contextWindow - 2
    IN { [text |-> Chars("in") \o Filler(edge) \o ee,
          startPosition |-> 2 + edge, endPosition |-> 4 + edge],
         [text |-> Chars("in") \o Filler(edge + 1) \o ee,
          startPosition |-> 3 + edge, endPosition |-> 5 + edge],
         [text |-> ee \o Filler(edge) \o Chars("ON"),
          startPosition |-> 0, endPosition |-> 2],
         [text |-> ee \o Filler(edge + 1) \o Chars("on"),
          startPosition |-> 0, endPosition |-> 2],
         [text |-> Chars("Dr Ee summit"),
          startPosition |-> 3, endPosition |-> 5],
         [text |-> Chars("xxEexx"),
          startPosition |-> 2, endPosition |-> 4] }

ScorerEntities(sample) ==
    [entityType : EntityType, confidence : ExtractionConfidence,
     startPosition : {sample.startPosition}, endPosition : {sample.endPosition}]

ConfidencesOf(list) == [i \in 1..Len(list) |-> list[i].confidence]

InitScorer ==
    /\ \E sample \in ScorerTexts :
          /\ scorerText = sample.text
          /\ scored \in ListsUpTo(ScorerEntities(sample), MaxScored) \ {<<>>}
    /\ confidences = <<ConfidencesOf(scored)>>
    /\ contextScores = <<>>
    /\ ResolverIdle
    /\ AggregatorIdle
    /\ MergerIdle
    /\ ConcurrentIdle
    /\ EntityIdle
    /\ FormatterIdle
    /\ SelectorIdle
    /\ ProcessorIdle
    /\ ServiceIdle
    /\ EngineIdle

\* entities = self._enhanceWithContext(entities, text)
EnhanceCall ==
    /\ Len(confidences) <= MaxApplications
    /\ LET scores == ContextScores(scored, scorerText)
       IN /\ scored' = EnhanceWithScores(scored, scores)
          /\ contextScores' = Append(contextScores, scores)
    /\ confidences' = Append(confidences, ConfidencesOf(scored'))
    /\ UNCHANGED scorerText
    /\ UNCHANGED exceptScorer

NextScorer == EnhanceCall

SpecScorer == InitScorer /\ [][NextScorer]_vars

(***************************************************************************)
(* Specification of the confidence aggregator on bounded records.          *)
(***************************************************************************)

MaxAggregated == 2

\* A field that is None, the empty str, or a name.
FieldValues == {None, Some(<<>>), Some(Chars("Ada"))}

InitAggregator ==
    /\ \E participantName, eventName, location, date \in FieldValues :
       \E list \in ListsUpTo([confidence : ExtractionConfidence], MaxAggregated) :
          aggregated = [participantName |-> participantName, eventName |-> eventName,
                        location |-> location, date |-> date, extractedEntities |-> list]
    /\ overall = NoResult
    /\ ResolverIdle
    /\ ScorerIdle
    /\ MergerIdle
    /\ ConcurrentIdle
    /\ EntityIdle
    /\ FormatterIdle
    /\ SelectorIdle
    /\ ProcessorIdle
    /\ ServiceIdle
    /\ EngineIdle

\* self._calculateOverallConfidence(info)
AggregateCall ==
    /\ overall = NoResult
    /\ overall' = CalculateOverallConfidence(aggregated)
    /\ UNCHANGED aggregated
    /\ UNCHANGED exceptAggregator

NextAggregator == AggregateCall

SpecAggregator == InitAggregator /\ [][NextAggregator]_vars

(***************************************************************************)
(* Specification of the engine and its two components: the calls a client  *)
(* makes on them, on the model's texts.                                    *)
(***************************************************************************)

MaxCalls == 2

\* (time.time() - startTime) * 1000
ElapsedMs == {0, 1}

\* The six flags _getExtractionMethodDescription reads.
MethodFlags == {methodNames[i][1] : i \in 1..Len(methodNames)}

\* The dictionaries the client passes to configurePipeline.
ConfigUpdates ==
    {[key \in ConfigKeys |-> TRUE],
     [key \in MethodFlags |-> FALSE],
     [key \in {"enablePreprocessing"} |-> FALSE],
     [key \in {"enableValidation"} |-> FALSE],
     [key \in {"timeoutMs"} |-> TRUE]}

InitEngine ==
    /\ EngineIdle
    /\ ResolverIdle
    /\ ScorerIdle
    /\ AggregatorIdle
    /\ MergerIdle
    /\ ConcurrentIdle
    /\ EntityIdle
    /\ FormatterIdle
    /\ SelectorIdle
    /\ ProcessorIdle
    /\ ServiceIdle

\* engine.configurePipeline(config)
ConfigurePipeline ==
    \E config \in ConfigUpdates :
        /\ pipelineConfig' = ConfiguredPipeline(pipelineConfig, config)
        /\ lastCall' = [op |-> "configurePipeline", config |-> config]
        /\ UNCHANGED <<metrics, processingHistory, extractorState>>
        /\ UNCHANGED exceptEngine

\* What the caller of extractInformation sees.
Returned(text, result) ==
    [op |-> "extractInformation", text |-> text, config |-> pipelineConfig,
     result |-> result, raised |-> "None"]

Raised(text, exception) ==
    [op |-> "extractInformation", text |-> text, config |-> pipelineConfig,
     result |-> NoResult, raised |-> exception]

\* A variant of extractInformation for a blank text that hands its error
\* result to _updateMetrics before it returns.
ExtractInformationBlankCounted ==
    \E text \in Texts, processingTime \in ElapsedMs :
        /\ Blank(text)
        /\ ~ExtractionResultPostInitRaises(
                processingTime, GetExtractionMethodDescription(pipelineConfig))
        /\ LET Then(result) ==
                   /\ lastCall' = Returned(text, result)
                   /\ metrics' = MetricsUpdated(metrics, result)
                   /\ processingHistory' = HistoryUpdated(processingHistory, result)
           IN Then(CreateErrorResult("Input text cannot be empty", processingTime,
                                     pipelineConfig))
        /\ UNCHANGED <<pipelineConfig, extractorState>>
        /\ UNCHANGED exceptEngine

\* engine.extractInformation(text) with an empty or blank text: the error
\* result of the first return statement. When its ExtractionResult cannot be
\* built, the except clause builds another with the same method description,
\* and the ValueError of that one leaves the method.
ExtractInformationBlank ==
    \E text \in Texts, processingTime \in ElapsedMs :
        /\ Blank(text)
        /\ lastCall' =
               IF ExtractionResultPostInitRaises(
                      processingTime, GetExtractionMethodDescription(pipelineConfig))
               THEN Raised(text, "ValueError: extractionMethod must be a non-empty string")
               ELSE Returned(text, CreateErrorResult("Input text cannot be empty",
                                                     processingTime, pipelineConfig))
        /\ UNCHANGED <<pipelineConfig, metrics, processingHistory, extractorState>>
        /\ UNCHANGED exceptEngine

\* A value that is not a str, as a client may pass in place of a text.
NotAString == <<"<int 123>">>

\* str(exc) of the AttributeError `text.strip()` raises on an int.
NoStripError == "'int' object has no attribute 'strip'"

\* engine.extractInformation(123): `not text` is false and text.strip()
\* raises inside the try block; the except clause returns the error result,
\* or raises when that result cannot be built.
ExtractInformationNotStr ==
    \E processingTime \in ElapsedMs :
        /\ lastCall' =
               IF ExtractionResultPostInitRaises(
                      processingTime, GetExtractionMethodDescription(pipelineConfig))
               THEN Raised(NotAString, "ValueError: extractionMethod must be a non-empty string")
               ELSE Returned(NotAString,
                             CreateErrorResult("Extraction failed: " \o NoStripError,
                                               processingTime, pipelineConfig))
        /\ UNCHANGED <<pipelineConfig, metrics, processingHistory, extractorState>>
        /\ UNCHANGED exceptEngine

\* engine.extractInformation(text) with any other text: the four steps, then
\* the metrics. When _finalizeResult cannot build its ExtractionResult the
\* except clause cannot build its own either, and the ValueError leaves the
\* method after the extractor has run and before the metrics are updated.
ExtractInformationRun ==
    \E text \in Texts, processingTime \in ElapsedMs, year \in Years :
        /\ ~Blank(text)
        /\ extractorState.extractionCount < MaxCalls
        /\ LET Then(run) ==
                   /\ extractorState' =
                          ExtractorAfter(extractorState, run.outcome, run.exception)
                   /\ IF ExtractionResultPostInitRaises(
                             processingTime, GetExtractionMethodDescription(pipelineConfig))
                      THEN /\ lastCall' =
                                 Raised(text,
                                        "ValueError: extractionMethod must be a non-empty string")
                           /\ UNCHANGED <<metrics, processingHistory>>
                      ELSE /\ lastCall' = Returned(text, run.result)
                           /\ metrics' = MetricsUpdated(metrics, run.result)
                           /\ processingHistory' =
                                  HistoryUpdated(processingHistory, run.result)
           IN Then(PipelineRun(pipelineConfig, text, processingTime, year, stages[text]))
        /\ UNCHANGED pipelineConfig
        /\ UNCHANGED exceptEngine

\* engine.entityExtractor.extractEntities(text), when no step raises but
\* ExtractedEntity's __post_init__.
ExtractEntities ==
    \E text \in Texts :
        /\ extractorState.extractionCount < MaxCalls
        /\ LET Then(extraction) ==
                   /\ extractorState' =
                          ExtractorAfter(extractorState, extraction.outcome, extraction.exception)
                   /\ lastCall' = [op |-> "extractEntities", text |-> text,
                                   result |-> extraction.entities,
                                   outcome |-> extraction.outcome]
           IN Then(stages[text].extracted[text])
        /\ UNCHANGED <<pipelineConfig, metrics, processingHistory>>
        /\ UNCHANGED exceptEngine

\* str(exc) of an Exception a step inside the try block raises: MemoryError()
\* has the empty message.
InternalFailures == {"", "maximum recursion depth exceeded"}

\* engine.entityExtractor.extractEntities(text), when a step inside the try
\* block raises an Exception: the except clause records it and returns [].
ExtractEntitiesFails ==
    \E text \in Texts, exception \in InternalFailures :
        /\ ~Blank(text)
        /\ extractorState.extractionCount < MaxCalls
        /\ extractorState' = ExtractorAfter(extractorState, "error", exception)
        /\ lastCall' = [op |-> "extractEntities", text |-> text, result |-> <<>>,
                        outcome |-> "error"]
        /\ UNCHANGED <<pipelineConfig, metrics, processingHistory>>
        /\ UNCHANGED exceptEngine

\* engine.informationProcessor.processExtractedEntities(list, text)
ProcessEntityList ==
    \E text \in Texts, year \in Years :
        /\ LET Then(stage) ==
                   \E list \in EntityLists(stage) :
                       lastCall' = [op |-> "processExtractedEntities", entities |-> list,
                                    text |-> text, year |-> year,
                                    result |-> stage.processed[list][year]]
           IN Then(stages[text])
        /\ UNCHANGED <<pipelineConfig, metrics, processingHistory, extractorState>>
        /\ UNCHANGED exceptEngine

\* engine.resetMetrics()
ResetMetrics ==
    /\ metrics' = InitialMetrics
    /\ processingHistory' = <<>>
    /\ lastCall' = [op |-> "resetMetrics"]
    /\ UNCHANGED <<pipelineConfig, extractorState>>
    /\ UNCHANGED exceptEngine

NextEngine ==
    \/ ConfigurePipeline
    \/ ExtractInformationBlank
    \/ ExtractInformationRun
    \/ ExtractEntities
    \/ ExtractEntitiesFails
    \/ ProcessEntityList
    \/ ResetMetrics

SpecEngine == InitEngine /\ [][NextEngine]_vars

(***************************************************************************)
(* Specification of the entity merger on bounded lists: entities of two    *)
(* types whose values differ, or differ in case only.                      *)
(***************************************************************************)

MaxMerged == 3

MergerKeys ==
    {<<"PERSON", Chars("Al")>>, <<"PERSON", Chars("al")>>, <<"PERSON", Chars("Bo")>>,
     <<"LOCATION", Chars("Al")>>}

\* Entities as mergeEntities reads them, all at the same span: members of a
\* group differ in confidence and in the case of the value.
MergerEntities ==
    {[entityType |-> k[1], value |-> k[2], confidence |-> c,
      startPosition |-> 0, endPosition |-> 2] : k \in MergerKeys, c \in ExtractionConfidence}

InitMerger ==
    /\ toMerge \in ListsUpTo(MergerEntities, MaxMerged)
    /\ merged = NoResult
    /\ ResolverIdle
    /\ ScorerIdle
    /\ AggregatorIdle
    /\ ConcurrentIdle
    /\ EntityIdle
    /\ FormatterIdle
    /\ SelectorIdle
    /\ ProcessorIdle
    /\ ServiceIdle
    /\ EngineIdle

\* merged = processor.mergeEntities(toMerge)
MergeCall ==
    /\ merged = NoResult
    /\ merged' = MergeEntities(toMerge)
    /\ UNCHANGED toMerge
    /\ UNCHANGED exceptMerger

NextMerger == MergeCall

SpecMerger == InitMerger /\ [][NextMerger]_vars

(***************************************************************************)
(* Specification of two extractInformation calls that run concurrently on  *)
(* one engine. Nothing in the engine, the extractor or the metrics takes a *)
(* lock, so each `+= 1` on a shared counter is a read and a later write,   *)
(* and the other thread may run between the two. The steps of a run that   *)
(* touch no shared state happen with the step before them.                 *)
(***************************************************************************)

ConcurrentTexts == {text \in Texts : ~Blank(text)}

InitConcurrent ==
    /\ ConcurrentIdle
    /\ ResolverIdle
    /\ ScorerIdle
    /\ AggregatorIdle
    /\ MergerIdle
    /\ EntityIdle
    /\ FormatterIdle
    /\ SelectorIdle
    /\ ProcessorIdle
    /\ ServiceIdle
    /\ EngineIdle

\* The client calls engine.extractInformation(text) with a text on which no
\* step of the extractor fails: what its run will compute is fixed by the
\* text and the configuration.
StartRun(c) ==
    /\ pc[c] = "start"
    /\ \E text \in ConcurrentTexts, year \in Years :
           LET Then(run) ==
                   /\ run.outcome = "success"
                   /\ request' = [request EXCEPT ![c] = [text |-> text, run |-> run]]
           IN Then(PipelineRun(pipelineConfig, text, 0, year, stages[text]))
    /\ pc' = [pc EXCEPT ![c] = "loadExtractionCount"]
    /\ UNCHANGED <<loaded, engineVars>>
    /\ UNCHANGED exceptEngineAndConcurrent

\* extractEntities: the read of self._extractionCount += 1
LoadExtractionCount(c) ==
    /\ pc[c] = "loadExtractionCount"
    /\ loaded' = [loaded EXCEPT ![c] = extractorState.extractionCount]
    /\ pc' = [pc EXCEPT ![c] = "storeExtractionCount"]
    /\ UNCHANGED <<request, engineVars>>
    /\ UNCHANGED exceptEngineAndConcurrent

\* extractEntities: the write of self._extractionCount += 1
StoreExtractionCount(c) ==
    /\ pc[c] = "storeExtractionCount"
    /\ extractorState' = [extractorState EXCEPT !.extractionCount = loaded[c] + 1]
    /\ pc' = [pc EXCEPT ![c] = "loadSuccessfulExtractions"]
    /\ UNCHANGED <<loaded, request, pipelineConfig, metrics, processingHistory, lastCall>>
    /\ UNCHANGED exceptEngineAndConcurrent

\* extractEntities, end of the try block: the read of
\* self._successfulExtractions += 1
LoadSuccessfulExtractions(c) ==
    /\ pc[c] = "loadSuccessfulExtractions"
    /\ loaded' = [loaded EXCEPT ![c] = extractorState.successfulExtractions]
    /\ pc' = [pc EXCEPT ![c] = "storeSuccessfulExtractions"]
    /\ UNCHANGED <<request, engineVars>>
    /\ UNCHANGED exceptEngineAndConcurrent

\* extractEntities, end of the try block: the write of
\* self._successfulExtractions += 1, and self._lastError = None
StoreSuccessfulExtractions(c) ==
    /\ pc[c] = "storeSuccessfulExtractions"
    /\ extractorState' = [extractorState EXCEPT !.successfulExtractions = loaded[c] + 1,
                                                !.lastError = "None"]
    /\ pc' = [pc EXCEPT ![c] = "loadTotalProcessed"]
    /\ UNCHANGED <<loaded, request, pipelineConfig, metrics, processingHistory, lastCall>>
    /\ UNCHANGED exceptEngineAndConcurrent

\* ProcessingMetrics.updateMetrics: the read of self.totalProcessed += 1
LoadTotalProcessed(c) ==
    /\ pc[c] = "loadTotalProcessed"
    /\ loaded' = [loaded EXCEPT ![c] = metrics.totalProcessed]
    /\ pc' = [pc EXCEPT ![c] = "storeTotalProcessed"]
    /\ UNCHANGED <<request, engineVars>>
    /\ UNCHANGED exceptEngineAndConcurrent

\* ProcessingMetrics.updateMetrics: the write of self.totalProcessed += 1
StoreTotalProcessed(c) ==
    /\ pc[c] = "storeTotalProcessed"
    /\ metrics' = [metrics EXCEPT !.totalProcessed = loaded[c] + 1]
    /\ pc' = [pc EXCEPT ![c] = "updateRest"]
    /\ UNCHANGED <<loaded, request, pipelineConfig, processingHistory, extractorState, lastCall>>
    /\ UNCHANGED exceptEngineAndConcurrent

\* The rest of updateMetrics, which works with the totalProcessed it finds,
\* then _updateMetrics appends the run's record to self.processingHistory and
\* cuts the list, and extractInformation returns.
UpdateRest(c) ==
    /\ pc[c] = "updateRest"
    /\ metrics' = MetricsUpdated([metrics EXCEPT !.totalProcessed = @ - 1],
                                 request[c].run.result)
    /\ processingHistory' = HistoryUpdated(processingHistory, request[c].run.result)
    /\ pc' = [pc EXCEPT ![c] = "done"]
    /\ UNCHANGED <<loaded, request, pipelineConfig, extractorState, lastCall>>
    /\ UNCHANGED exceptEngineAndConcurrent

NextConcurrent ==
    \E c \in Clients :
        \/ StartRun(c)
        \/ LoadExtractionCount(c)
        \/ StoreExtractionCount(c)
        \/ LoadSuccessfulExtractions(c)
        \/ StoreSuccessfulExtractions(c)
        \/ LoadTotalProcessed(c)
        \/ StoreTotalProcessed(c)
        \/ UpdateRest(c)

SpecConcurrent == InitConcurrent /\ [][NextConcurrent]_vars

(***************************************************************************)
(* Specification of the construction of an ExtractedEntity from bounded    *)
(* arguments: values that are empty, blank, padded or trimmed, positions   *)
(* around zero, and a type and a confidence that may not be enum members.  *)
(***************************************************************************)

EntityValues == {Chars(""), Chars(" "), Chars("Al"), Chars(" Al"), Chars("Al ")}

EntityPositions == -1 .. 2

InitEntity ==
    /\ entityArgs \in [entityType : EntityType \cup {"str"}, value : EntityValues,
                       confidence : ExtractionConfidence \cup {"str"},
                       startPosition : EntityPositions, endPosition : EntityPositions,
                       originalText : {Chars("Al")}]
    /\ constructed = NoResult
    /\ ResolverIdle
    /\ ScorerIdle
    /\ AggregatorIdle
    /\ MergerIdle
    /\ ConcurrentIdle
    /\ FormatterIdle
    /\ SelectorIdle
    /\ ProcessorIdle
    /\ ServiceIdle
    /\ EngineIdle

\* ExtractedEntity(**entityArgs): the dataclass assigns the fields and
\* __post_init__ raises ValueError or returns.
ConstructEntity ==
    /\ constructed = NoResult
    /\ constructed' = IF EntityPostInitOk(entityArgs)
                      THEN "constructed"
                      ELSE "ValueError: " \o EntityPostInitError(entityArgs)
    /\ UNCHANGED entityArgs
    /\ UNCHANGED exceptEntity

NextEntity == ConstructEntity

SpecEntity == InitEntity /\ [][NextEntity]_vars

(***************************************************************************)
(* Specification of the four formatters of the processor on bounded        *)
(* values: up to MaxWords words, among them prefixes the date formatter    *)
(* removes, a month, a suffix and an initial the name formatter puts in    *)
(* upper case, and a part that ends in a comma.                            *)
(***************************************************************************)

MaxWords == 3

FormatterWords ==
    {Chars("on"), Chars("date"), Chars("may"), Chars("jr"), Chars("a.b"), Chars("york,")}

FormatterValues ==
    {Join(<<" ">>, words) : words \in ListsUpTo(FormatterWords, MaxWords) \ {<<>>}}

Formatters ==
    {"_cleanAndFormatPersonName", "_cleanAndFormatLocationName", "_cleanAndFormatEventName",
     "_cleanAndFormatDate"}

\* getattr(processor, name)(value)
Format(name, value) ==
    CASE name = "_cleanAndFormatPersonName" -> CleanAndFormatPersonName(value)
      [] name = "_cleanAndFormatLocationName" -> CleanAndFormatLocationName(value)
      [] name = "_cleanAndFormatEventName" -> CleanAndFormatEventName(value)
      [] name = "_cleanAndFormatDate" -> CleanAndFormatDate(value)

InitFormatter ==
    /\ formatter \in Formatters
    /\ unformatted \in FormatterValues
    /\ formatted = NoResult
    /\ reformatted = NoResult
    /\ ResolverIdle
    /\ ScorerIdle
    /\ AggregatorIdle
    /\ MergerIdle
    /\ ConcurrentIdle
    /\ EntityIdle
    /\ SelectorIdle
    /\ ProcessorIdle
    /\ ServiceIdle
    /\ EngineIdle

\* formatted = getattr(processor, formatter)(unformatted)
FormatCall ==
    /\ formatted = NoResult
    /\ formatted' = Format(formatter, unformatted)
    /\ UNCHANGED <<formatter, unformatted, reformatted>>
    /\ UNCHANGED exceptFormatter

\* reformatted = getattr(processor, formatter)(formatted)
FormatAgain ==
    /\ formatted # NoResult
    /\ reformatted = NoResult
    /\ reformatted' = Format(formatter, formatted)
    /\ UNCHANGED <<formatter, unformatted, formatted>>
    /\ UNCHANGED exceptFormatter

NextFormatter == FormatCall \/ FormatAgain

SpecFormatter == InitFormatter /\ [][NextFormatter]_vars

(***************************************************************************)
(* Specification of the selection of the best entity of a type on bounded  *)
(* lists: per type a value that scores high and one that scores low, in    *)
(* the highest and the lowest scored tier, at two positions.               *)
(***************************************************************************)

MaxCandidates == 3

SelectorValues ==
    [PERSON |-> {Chars("Ann Lee"), Chars("ann")},
     EVENT |-> {Chars("Tech Summit"), Chars("gala")},
     LOCATION |-> {Chars("Paris, TX"), Chars("hall")},
     DATE |-> {Chars("May 5, 2026"), Chars("5/5/26")}]

SelectorConfidences == {"HIGH", "LOW"}

SelectorEntities(entityType) ==
    {[entityType |-> entityType, value |-> v, confidence |-> c,
      startPosition |-> p, endPosition |-> p + Len(v)] :
         v \in SelectorValues[entityType], c \in SelectorConfidences, p \in {0, 20}}

InitSelector ==
    /\ selectType \in DOMAIN SelectorValues
    /\ candidates \in ListsUpTo(SelectorEntities(selectType), MaxCandidates)
    /\ selection = NoResult
    /\ ResolverIdle
    /\ ScorerIdle
    /\ AggregatorIdle
    /\ MergerIdle
    /\ ConcurrentIdle
    /\ EntityIdle
    /\ FormatterIdle
    /\ ProcessorIdle
    /\ ServiceIdle
    /\ EngineIdle

\* selection = processor._selectBest<Type>Entity(candidates)
SelectCall ==
    /\ selection = NoResult
    /\ \E year \in Years : selection' = SelectBestEntity(selectType, candidates, year)
    /\ UNCHANGED <<selectType, candidates>>
    /\ UNCHANGED exceptSelector

NextSelector == SelectCall

SpecSelector == InitSelector /\ [][NextSelector]_vars

(***************************************************************************)
(* Specification of processExtractedEntities on bounded entity lists: a    *)
(* valid and an invalid person, an event, a location and a date in         *)
(* several tiers, with texts in which the fallbacks find nothing, a        *)
(* location, or a location and a name.                                     *)
(***************************************************************************)

MaxProcessed == 3

ProcessorTexts == {Chars(""), Chars("venue: Hall"), Chars("name: al bo venue: Hall")}

ProcessorEntities ==
    {ExtractedEntity(e[1], Chars(e[2]), e[3], 0, Len(Chars(e[2])), Chars(e[2])) :
         e \in {<<"PERSON", "Ann Lee", "HIGH">>, <<"PERSON", "ann", "MEDIUM">>,
                <<"EVENT", "Tech Summit", "HIGH">>,
                <<"LOCATION", "Paris", "HIGH">>, <<"LOCATION", "Paris", "LOW">>,
                <<"DATE", "5/5/26", "HIGH">>, <<"DATE", "5/5/26", "UNKNOWN">>}}

InitProcessor ==
    /\ processorText \in ProcessorTexts
    /\ toProcess \in ListsUpTo(ProcessorEntities, MaxProcessed)
    /\ infoAfter = NoResult
    /\ ResolverIdle
    /\ ScorerIdle
    /\ AggregatorIdle
    /\ MergerIdle
    /\ ConcurrentIdle
    /\ EntityIdle
    /\ FormatterIdle
    /\ SelectorIdle
    /\ ServiceIdle
    /\ EngineIdle

\* processor.processExtractedEntities(toProcess, processorText): the record
\* as it is after the primary pass (at the return for an empty list), and the
\* record returned.
ProcessCall ==
    /\ infoAfter = NoResult
    /\ \E year \in Years :
           infoAfter' =
               <<IF toProcess = <<>> THEN EventRegistrationInfo(processorText)
                 ELSE PrimaryPass(toProcess, processorText, year),
                 ProcessExtractedEntities(toProcess, processorText, year)>>
    /\ UNCHANGED <<processorText, toProcess>>
    /\ UNCHANGED exceptProcessor

NextProcessor == ProcessCall

SpecProcessor == InitProcessor /\ [][NextProcessor]_vars

(***************************************************************************)
(* Specification of the service facade in front of one engine with the     *)
(* default pipeline: a client that works through a list of requests, one   *)
(* per text and template type, repeats the first of them, possibly with    *)
(* blanks around the text, sends texts that are too short, sends batches,  *)
(* and resets the service. The list has more requests than the cache has   *)
(* room for.                                                               *)
(***************************************************************************)

\* The extractions the engine's extractor makes at most.
MaxExtractions == 51

\* How many of the first requests of the list the client repeats.
MaxRepeated == 2

\* The longest batch.
MaxBatch == 2

ServiceTexts ==
    <<Chars("on 5/5/2026"), Chars("in Paris now"), Chars("venue: Hall"),
      Chars("hello world"), Chars("see you soon"), Chars("no data here"),
      Chars("name: al bo")>>

\* The client's list: every text with the first template type, then every
\* text with the second, and so on.
Requests ==
    [r \in 1..(Len(ServiceTexts) * Len(templates)) |->
        [text |-> ServiceTexts[((r - 1) % Len(ServiceTexts)) + 1],
         templateType |-> templates[((r - 1) \div Len(ServiceTexts)) + 1]]]

\* Texts _validateInput rejects.
RejectedTexts == {Chars(""), Chars("in Paris")}

Padded(text) == Chars(" ") \o text \o Chars("  ")

\* The requests the client can make when it has made the first n of its list:
\* the next one, one of the first MaxRepeated again, as it was or padded, or a
\* text that is too short.
ClientRequests(n) ==
    {Requests[r] : r \in {n + 1} \cap DOMAIN Requests}
    \cup {Requests[r] : r \in 1..Min(n, MaxRepeated)}
    \cup {[Requests[r] EXCEPT !.text = Padded(@)] : r \in 1..Min(n, MaxRepeated)}
    \cup {[text |-> text, templateType |-> templates[1]] : text \in RejectedTexts}

\* Stages(text) for the texts the client sends, computed once.
serviceStages ==
    [text \in {ServiceTexts[i] : i \in DOMAIN ServiceTexts}
              \cup {Padded(ServiceTexts[i]) : i \in 1..MaxRepeated} \cup RejectedTexts |->
        IF ServiceValidateInput(text) THEN Stages(text) ELSE NoResult]

InitService ==
    /\ ServiceIdle
    /\ ResolverIdle
    /\ ScorerIdle
    /\ AggregatorIdle
    /\ MergerIdle
    /\ ConcurrentIdle
    /\ EntityIdle
    /\ FormatterIdle
    /\ SelectorIdle
    /\ ProcessorIdle
    /\ EngineIdle

\* The service's and the engine's objects in the current state.
serviceObjects ==
    ServiceObjects(resultCache, serviceLastError, metrics, processingHistory, extractorState)

\* The objects of a state `after` become the next state.
ServiceObjectsBecome(after) ==
    /\ resultCache' = after.resultCache
    /\ serviceLastError' = after.lastError
    /\ metrics' = after.metrics
    /\ processingHistory' = after.processingHistory
    /\ extractorState' = after.extractorState

\* Whether a asked is answered from the cache c.
IsHit(c, asked) ==
    /\ ServiceValidateInput(asked.text)
    /\ CacheLookup(c, GenerateCacheKey(asked.text, asked.templateType)) # None

\* service.extractInformation(text, templateType)
ServiceExtract ==
    \E asked \in ClientRequests(issued), year \in Years :
        /\ extractorState.extractionCount < MaxExtractions
        /\ LET Then(call) ==
                   /\ ServiceObjectsBecome(call.after)
                   /\ serviceCall' = [op |-> "extractInformation", text |-> asked.text,
                                      templateType |-> asked.templateType,
                                      response |-> call.response]
           IN Then(ServiceExtractInformation(serviceObjects, pipelineConfig, asked.text,
                                             asked.templateType, year,
                                             serviceStages[asked.text]))
        /\ issued' = IF issued + 1 \in DOMAIN Requests /\ asked = Requests[issued + 1]
                     THEN issued + 1 ELSE issued
        /\ lastHit' = IF IsHit(resultCache, asked)
                      THEN Some(GenerateCacheKey(asked.text, asked.templateType))
                      ELSE lastHit
        /\ UNCHANGED <<pipelineConfig, lastCall>>
        /\ UNCHANGED exceptEngineAndService

\* service.extractBatch(texts, templateType) with the texts of the next
\* requests of the list, which share a template type.
ServiceBatch ==
    \E size \in 2..MaxBatch, year \in Years :
        /\ issued + size \in DOMAIN Requests
        /\ \A k \in 1..size : Requests[issued + k].templateType = Requests[issued + 1].templateType
        /\ extractorState.extractionCount + size <= MaxExtractions
        /\ LET texts == [k \in 1..size |-> Requests[issued + k].text]
               Then(batch) ==
                   /\ ServiceObjectsBecome(batch.after)
                   /\ serviceCall' = [op |-> "extractBatch", texts |-> texts,
                                      templateType |-> Requests[issued + 1].templateType,
                                      results |-> batch.results]
           IN Then(BatchLoop(serviceObjects, pipelineConfig, texts,
                             Requests[issued + 1].templateType, year, serviceStages))
        /\ issued' = issued + size
        /\ UNCHANGED <<lastHit, pipelineConfig, lastCall>>
        /\ UNCHANGED exceptEngineAndService

\* service.resetService()
ServiceResetCall ==
    /\ ServiceObjectsBecome(ServiceReset(serviceObjects))
    /\ serviceCall' = [op |-> "resetService"]
    /\ issued' = 0
    /\ lastHit' = None
    /\ UNCHANGED <<pipelineConfig, lastCall>>
    /\ UNCHANGED exceptEngineAndService

NextService ==
    \/ ServiceExtract
    \/ ServiceBatch
    \/ ServiceResetCall

SpecService == InitService /\ [][NextService]_vars

(***************************************************************************)
(* The engine over a long run: more extractInformation calls than the      *)
(* processing history keeps. The first calls after a reset take any text   *)
(* of the model; the later ones go through the texts in turn.              *)
(***************************************************************************)

MaxHistoryCalls == 102
MaxVaried == 1

\* The texts of the model extractInformation runs its pipeline on.
PipelineTexts ==
    <<Chars("in Paris"), Chars("venue: Hall"), Chars("John Smith met John Smith"),
      Chars("in Paris name: al bo venue: Hall")>>

\* The texts the client may send, with `counted` results in the metrics and
\* `calls` calls of the extractor made.
ClientTexts(counted, calls) ==
    IF counted < MaxVaried
    THEN {PipelineTexts[i] : i \in DOMAIN PipelineTexts}
    ELSE {PipelineTexts[(calls % Len(PipelineTexts)) + 1]}

\* engine.extractInformation(text) with a text that is not blank, as
\* ExtractInformationRun.
ExtractInformationNext ==
    \E text \in ClientTexts(metrics.totalProcessed, extractorState.extractionCount),
       year \in Years :
        /\ ~Blank(text)
        /\ extractorState.extractionCount < MaxHistoryCalls
        /\ LET processingTime == extractorState.extractionCount % 2
               Then(run) ==
                   /\ extractorState' =
                          ExtractorAfter(extractorState, run.outcome, run.exception)
                   /\ IF ExtractionResultPostInitRaises(
                             processingTime, GetExtractionMethodDescription(pipelineConfig))
                      THEN /\ lastCall' =
                                 Raised(text,
                                        "ValueError: extractionMethod must be a non-empty string")
                           /\ UNCHANGED <<metrics, processingHistory>>
                      ELSE /\ lastCall' = Returned(text, run.result)
                           /\ metrics' = MetricsUpdated(metrics, run.result)
                           /\ processingHistory' =
                                  HistoryUpdated(processingHistory, run.result)
           IN Then(PipelineRun(pipelineConfig, text, processingTime, year, stages[text]))
        /\ UNCHANGED pipelineConfig
        /\ UNCHANGED exceptEngine

NextHistory ==
    \/ ExtractInformationNext
    \/ ExtractInformationBlank
    \/ ResetMetrics

SpecHistory == InitEngine /\ [][NextHistory]_vars

(***************************************************************************)
(* The engine's extractInformation with texts, blank texts and values that *)
(* are not texts, under any pipeline configuration.                        *)
(***************************************************************************)

NextErrors ==
    \/ ConfigurePipeline
    \/ ExtractInformationBlank
    \/ ExtractInformationNotStr
    \/ ExtractInformationRun
    \/ ResetMetrics

SpecErrors == InitEngine /\ [][NextErrors]_vars
(***************************************************************************)
(* Claims about the overlap resolver.                                      *)
(***************************************************************************)

\* The tier order HIGH > MEDIUM > LOW > UNKNOWN as a rank.
TierRank(c) ==
    CASE c = "HIGH" -> 3 [] c = "MEDIUM" -> 2 [] c = "LOW" -> 1 [] c = "UNKNOWN" -> 0

\* The spec's glossary: two spans intersect.
SpansOverlap(a, b) == a.startPosition < b.endPosition /\ a.endPosition > b.startPosition

NoOverlappingPair(list) ==
    \A i, j \in 1..Len(list) : i # j => ~SpansOverlap(list[i], list[j])

\* C1: of two overlapping candidates with different confidence tiers the
\* resolver returns exactly the one with the higher tier under
\* HIGH > MEDIUM > LOW > UNKNOWN, whichever of the two starts first.
C1_HigherTierRetained ==
    (/\ resolverCalls = 1
     /\ Len(entities) = 2
     /\ SpansOverlap(entities[1], entities[2])
     /\ entities[1].confidence # entities[2].confidence)
    => cleaned = <<IF TierRank(entities[1].confidence) > TierRank(entities[2].confidence)
                   THEN entities[1] ELSE entities[2]>>

\* C2: the returned list holds no two entities with overlapping spans, and the
\* list object, which the call sorted in place, yields that same list when the
\* resolver is given it again.
C2_NoOverlapDeterministic ==
    resolverCalls >= 1 =>
        /\ NoOverlappingPair(firstResult)
        /\ RemoveDuplicatesAndOverlaps(entities) = firstResult

C2_Witness ==
    /\ resolverCalls = 1
    /\ Len(entities) = 3
    /\ Len(cleaned) = 2
    /\ \E i, j \in 1..3 : i # j /\ SpansOverlap(entities[i], entities[j])
    /\ \E i \in 1..2 : entities[i].startPosition = entities[i + 1].startPosition

\* C10: running the resolver on its own output returns the same entities in
\* the same order, and leaves the list it was given as it was.
C10_SelfStable ==
    resolverCalls = 2 => (rerun = firstResult /\ cleaned = firstResult)

C10_Witness ==
    /\ resolverCalls = 2
    /\ Len(entities) = 3
    /\ Len(rerun) = 2
    /\ \E i, j \in 1..3 : i # j /\ SpansOverlap(entities[i], entities[j])

\* The accepted list (`cleaned` inside the resolver) after the first k
\* entities of a list have been processed.
Accepted(list, k) == ResolveLoop(SubSeq(list, 1, k), <<>>)

\* The accepted entities the candidate list[k + 1] overlaps when its turn comes.
OverlappedBy(list, k) ==
    {i \in 1..Len(Accepted(list, k)) : SpansOverlap(list[k + 1], Accepted(list, k)[i])}

\* C17: a candidate that overlaps an accepted entity of equal confidence is
\* discarded and the accepted list stays as it is; of two overlapping
\* candidates of equal confidence the resolver returns the one with the
\* smaller start, and for equal starts the one earlier in the input list.
C17_EqualConfidenceKeepsEarlier ==
    [][(resolverCalls = 0 /\ resolverCalls' = 1) =>
           /\ \A k \in 0..(Len(entities') - 1) :
                  (\E i \in OverlappedBy(entities', k) :
                       Accepted(entities', k)[i].confidence = entities'[k + 1].confidence)
                      => Accepted(entities', k + 1) = Accepted(entities', k)
           /\ (/\ Len(entities) = 2
               /\ SpansOverlap(entities[1], entities[2])
               /\ entities[1].confidence = entities[2].confidence) =>
                  cleaned' = <<IF entities[2].startPosition < entities[1].startPosition
                               THEN entities[2] ELSE entities[1]>>]_resolverCalls

\* Of three entities of equal confidence the second and the third overlap the
\* first, which starts where the second does, and only the first is returned.
C17_Witness ==
    /\ resolverCalls = 1
    /\ Len(entities) = 3
    /\ \A i \in 2..3 : /\ entities[i].confidence = entities[1].confidence
                        /\ entities[i] # entities[1]
                        /\ SpansOverlap(entities[i], entities[1])
    /\ entities[2].startPosition = entities[1].startPosition
    /\ cleaned = <<entities[1]>>

\* C18: a candidate is resolved against the first accepted entity it overlaps
\* only, so processing it removes at most one accepted entity, the first it
\* overlaps; and as the candidates come in ascending start order, each
\* overlaps at most one accepted entity when its turn comes, so the accepted
\* list has no overlapping pair after it.
C18_AtMostOneConflict ==
    resolverCalls >= 1 =>
        \A k \in 0..(Len(entities) - 1) :
            /\ Cardinality(OverlappedBy(entities, k)) <= 1
            /\ \A i \in 1..Len(Accepted(entities, k)) :
                   i # FirstOverlap(entities[k + 1], Accepted(entities, k)) =>
                       \E j \in 1..Len(Accepted(entities, k + 1)) :
                           Accepted(entities, k + 1)[j] = Accepted(entities, k)[i]
            /\ NoOverlappingPair(Accepted(entities, k + 1))

\* The third of three entities overlaps the second of two accepted entities
\* and replaces it; the first stays.
C18_Witness ==
    /\ resolverCalls = 1
    /\ Len(entities) = 3
    /\ Accepted(entities, 2) = <<entities[1], entities[2]>>
    /\ OverlappedBy(entities, 2) = {2}
    /\ cleaned = <<entities[1], entities[3]>>

(***************************************************************************)
(* Claims about the context scorer.                                        *)
(***************************************************************************)

\* The keyword count of the i-th scored entity in the k-th application.
HitsOf(k, i) == contextScores[k][i]

C6_OneTierPromotion ==
    \A k \in 1..(Len(confidences) - 1) : \A i \in 1..Len(scored) :
        LET before == confidences[k][i]
            after == confidences[k + 1][i]
        IN /\ TierRank(after) >= TierRank(before)
           /\ TierRank(after) <= TierRank(before) + 1
           /\ after \in ExtractionConfidence
           /\ after = "UNKNOWN" => before = "UNKNOWN"
           /\ HitsOf(k, i) > 0 /\ before = "LOW" => after = "MEDIUM"
           /\ HitsOf(k, i) > 0 /\ before = "MEDIUM" => after = "HIGH"
           /\ HitsOf(k, i) > 0 /\ before = "HIGH" => after = "HIGH"
           /\ HitsOf(k, i) = 0 => after = before

C6_Witness ==
    /\ Len(confidences) = 2
    /\ Len(scored) = 2
    /\ HitsOf(1, 1) > 0 /\ confidences[1][1] = "LOW" /\ confidences[2][1] = "MEDIUM"
    /\ HitsOf(1, 2) = 0 /\ confidences[1][2] = "LOW" /\ confidences[2][2] = "LOW"


(***************************************************************************)
(* Claims about the confidence aggregator.                                 *)
(***************************************************************************)

FieldNames == {"participantName", "eventName", "location", "date"}

\* The fields of a record that hold a non-empty string.
FilledFields(info) == {f \in FieldNames : info[f] # None /\ info[f][1] # <<>>}

\* The sum of HIGH=3, MEDIUM=2, LOW=1, UNKNOWN=0 over the entities of a list.
TierSum(list) ==
    3 * Cardinality({i \in 1..Len(list) : list[i].confidence = "HIGH"})
    + 2 * Cardinality({i \in 1..Len(list) : list[i].confidence = "MEDIUM"})
    + Cardinality({i \in 1..Len(list) : list[i].confidence = "LOW"})

\* C4: for a record with a non-empty entity list the aggregator returns the
\* first matching row of: four fields filled and mean >= 2.5, HIGH; three or
\* more and mean >= 2.0, HIGH; two or more and mean >= 1.5, MEDIUM; one or
\* more, LOW; otherwise UNKNOWN. The mean is TierSum / Len.
C4_DecisionTable ==
    (overall # NoResult /\ aggregated.extractedEntities # <<>>) =>
        LET filledCount == Cardinality(FilledFields(aggregated))
            n == Len(aggregated.extractedEntities)
            sum == TierSum(aggregated.extractedEntities)
        IN overall =
               CASE filledCount = 4 /\ 2 * sum >= 5 * n -> "HIGH"
                 [] filledCount >= 3 /\ sum >= 2 * n -> "HIGH"
                 [] filledCount >= 2 /\ 2 * sum >= 3 * n -> "MEDIUM"
                 [] filledCount >= 1 -> "LOW"
                 [] OTHER -> "UNKNOWN"

\* Two fields filled, one of them beside an empty string, and a mean of
\* exactly 1.5.
C4_Witness ==
    /\ overall = "MEDIUM"
    /\ Cardinality(FilledFields(aggregated)) = 2
    /\ \E f \in FieldNames : aggregated[f] = Some(<<>>)
    /\ Len(aggregated.extractedEntities) = 2
    /\ TierSum(aggregated.extractedEntities) = 3

(***************************************************************************)
(* Claims about the engine, the extractor and the processor on the texts   *)
(* of the model.                                                           *)
(***************************************************************************)

\* A record as EventRegistrationInfo(originalText) builds it and nothing has
\* filled it: no field, no entity, UNKNOWN, not complete.
EmptyRecord(info) ==
    /\ \A f \in FieldNames : info[f] = None
    /\ info.extractedEntities = <<>>
    /\ info.overallConfidence = "UNKNOWN"
    /\ ~IsComplete(info)

mergedFirst ==
    [text \in Texts |->
        IF stages[text].extracted[text].outcome # "success" THEN <<>>
        ELSE EnhanceWithContext(
                 RemoveDuplicatesAndOverlaps(MergeEntities(Candidates(text))), text)]

\* C7: the stages run in the order candidate generation, merging, overlap
\* resolution, context scoring: what extractEntities returns is what the
\* resolver and the scorer make of the merged candidates.
C7_MergedBeforeResolved ==
    (lastCall.op = "extractEntities" /\ lastCall.outcome = "success") =>
        lastCall.result = mergedFirst[lastCall.text]

\* What each fallback extractor finds in a text.
fallbacks ==
    [text \in Texts |->
        [participantName |-> ExtractNameFallback(text),
         eventName |-> ExtractEventFallback(text),
         location |-> ExtractLocationFallback(text),
         date |-> ExtractDateFallback(text)]]

\* The record after the primary pass of processExtractedEntities(list, text):
\* an empty list selects nothing.
primaryPass ==
    [text \in Texts |->
        [list \in EntityLists(stages[text]) |->
            [year \in Years |->
                IF list = <<>> THEN EventRegistrationInfo(text)
                ELSE PrimaryPass(list, text, year)]]]

\* C8: processExtractedEntities runs the fallback extractor over the original
\* text for every field that the primary pass left unset, also when the list
\* is empty: such a field holds what the fallback finds.
C8_FallbackForUnsetFields ==
    lastCall.op = "processExtractedEntities" =>
        \A f \in FieldNames :
            ~Truthy(primaryPass[lastCall.text][lastCall.entities][lastCall.year][f])
                => lastCall.result[f] = fallbacks[lastCall.text][f]

\* C9: for an empty or whitespace-only text the extractor returns the empty
\* list, the processor returns an empty record, and the result the engine
\* returns carries an empty record.
C9_BlankTextEmptyRecord ==
    /\ (lastCall.op = "extractEntities" /\ Blank(lastCall.text)) => lastCall.result = <<>>
    /\ (lastCall.op = "processExtractedEntities" /\ Blank(lastCall.text)) =>
           EmptyRecord(lastCall.result)
    /\ (lastCall.op = "extractInformation" /\ Blank(lastCall.text)
        /\ lastCall.raised = "None") =>
           EmptyRecord(lastCall.result.registrationInfo)

\* The engine has returned a result for a text of two spaces, after the
\* extractor ran on another text.
C9_Witness ==
    /\ lastCall.op = "extractInformation"
    /\ lastCall.text = Chars("  ")
    /\ lastCall.raised = "None"
    /\ extractorState.extractionCount > 0

(***************************************************************************)
(* Claims about the entity merger (SpecMerger)                             *)
(***************************************************************************)

\* The key mergeEntities groups by.
MergeKey(e) == <<e.entityType, StrLower(e.value)>>

\* The indices of a list whose entities have the key.
GroupOf(list, key) == {i \in 1..Len(list) : MergeKey(list[i]) = key}

\* The earliest index of the group whose confidence no member of it exceeds.
EarliestBest(list, key) ==
    CHOOSE i \in GroupOf(list, key) :
        /\ \A j \in GroupOf(list, key) :
               TierRank(list[j].confidence) <= TierRank(list[i].confidence)
        /\ \A j \in GroupOf(list, key) :
               j < i => TierRank(list[j].confidence) < TierRank(list[i].confidence)

\* C11: mergeEntities returns exactly one entity per distinct key (entityType,
\* lowercased value), and that entity is the earliest member of the key's
\* group with the highest confidence under HIGH > MEDIUM > LOW > UNKNOWN; no
\* other entity is returned.
C11_OnePerKeyBestOfGroup ==
    merged # NoResult =>
        /\ \A i \in 1..Len(toMerge) :
               Cardinality({k \in 1..Len(merged) : MergeKey(merged[k]) = MergeKey(toMerge[i])}) = 1
        /\ \A k \in 1..Len(merged) :
               /\ GroupOf(toMerge, MergeKey(merged[k])) # {}
               /\ merged[k] = toMerge[EarliestBest(toMerge, MergeKey(merged[k]))]

\* Three entities of one key: a LOW one, then two HIGH ones whose values differ
\* in case; the first HIGH one is the only entity returned.
C11_Witness ==
    /\ merged # NoResult
    /\ Len(toMerge) = 3
    /\ \A i \in 1..3 : MergeKey(toMerge[i]) = <<"PERSON", Chars("al")>>
    /\ toMerge[1].confidence = "LOW"
    /\ toMerge[2].confidence = "HIGH"
    /\ toMerge[3].confidence = "HIGH"
    /\ toMerge[2].value # toMerge[3].value
    /\ merged = <<toMerge[2]>>

(***************************************************************************)
(* Claims about the extractor's error channel (SpecEngine)                 *)
(***************************************************************************)

\* A step that is a call of extractEntities by the client.
ExtractEntitiesStep ==
    /\ lastCall'.op = "extractEntities"
    /\ extractorState'.extractionCount = extractorState.extractionCount + 1

\* What C12 says of a run in which a step failed: the empty list is returned,
\* getLastError() gives a non-empty string, and the run is not counted as
\* successful.
FailureRecorded ==
    lastCall'.outcome = "error" =>
        /\ lastCall'.result = <<>>
        /\ extractorState'.lastError \notin {"None", ""}
        /\ extractorState'.successfulExtractions = extractorState.successfulExtractions

\* C12 as stated: a failed run of extractEntities returns the empty list,
\* records a non-empty last error and is not counted as successful; after a
\* run without failure on a non-empty text getLastError() is None.
C12_NoErrorAfterNonEmptyText ==
    [][ExtractEntitiesStep =>
           /\ FailureRecorded
           /\ (lastCall'.outcome # "error" /\ lastCall'.text # <<>>) =>
                  extractorState'.lastError = "None"]_extractorState

\* C12, amended: a failed run of extractEntities returns the empty list,
\* records a non-empty last error and is not counted as successful; after a
\* run without failure on a text that is not empty after stripping
\* whitespace getLastError() is None.
C12_NoErrorAfterNonBlankText ==
    [][ExtractEntitiesStep =>
           /\ FailureRecorded
           /\ (lastCall'.outcome # "error" /\ ~Blank(lastCall'.text)) =>
                  extractorState'.lastError = "None"]_extractorState

\* A run failed with an exception whose message is empty, after a run that
\* succeeded: one successful extraction of two, and the error is recorded.
C12_Witness ==
    /\ lastCall.op = "extractEntities"
    /\ lastCall.outcome = "error"
    /\ lastCall.result = <<>>
    /\ extractorState.extractionCount = 2
    /\ extractorState.successfulExtractions = 1
    /\ extractorState.lastError = "Extraction error: "

(***************************************************************************)
(* Claims about concurrent runs (SpecConcurrent)                           *)
(***************************************************************************)

\* C13: when two extraction runs execute concurrently on the same extractor
\* and engine, after both have completed the extraction count and
\* metrics.totalProcessed have each grown by exactly 2 and the processing
\* history holds a record for both runs.
C13_NoLostUpdate ==
    (\A c \in Clients : pc[c] = "done") =>
        /\ extractorState.extractionCount = 2
        /\ metrics.totalProcessed = 2
        /\ Len(processingHistory) = 2

(***************************************************************************)
(* Claims about the result of extractInformation (SpecEngine)              *)
(***************************************************************************)

\* The fields of a record that have been assigned a value.
PopulatedFields(info) == {f \in FieldNames : info[f] # None}

\* The record the pipeline builds for a call of extractInformation, whether or
\* not the call can wrap it in an ExtractionResult.
RunRecord(call, year) ==
    IF Blank(call.text) THEN EventRegistrationInfo(<<>>)
    ELSE stages[call.text].processed[
             stages[call.text].extracted[
                 EnginePreprocessText(call.config, call.text,
                                      stages[call.text].preprocessed)].entities][year]

\* Every result extractInformation returns is successful exactly when one of
\* its four fields is populated.
SuccessfulIffPopulated ==
    (lastCall.op = "extractInformation" /\ lastCall.raised = "None") =>
        (IsSuccessful(lastCall.result)
            <=> PopulatedFields(lastCall.result.registrationInfo) # {})

C15_ViolatingEntityRejected ==
    constructed = "constructed" =>
        /\ entityArgs.startPosition >= 0
        /\ entityArgs.endPosition > entityArgs.startPosition
        /\ entityArgs.value # <<>>
        /\ Strip(entityArgs.value) = entityArgs.value
        /\ entityArgs.confidence \in ExtractionConfidence

\* Every entity extractEntities returns spans at least one character and has a
\* trimmed, non-empty value.
ReturnedEntitiesHaveSpan ==
    lastCall.op = "extractEntities" =>
        \A i \in 1..Len(lastCall.result) :
            /\ 0 <= lastCall.result[i].startPosition
            /\ lastCall.result[i].startPosition < lastCall.result[i].endPosition
            /\ lastCall.result[i].value # <<>>
            /\ Strip(lastCall.result[i].value) = lastCall.result[i].value

(***************************************************************************)
(* Claims about the formatters (SpecFormatter)                             *)
(***************************************************************************)

\* C16: each of the four formatters is idempotent: formatting a value it has
\* formatted returns that value unchanged, for date values with more than one
\* leading prefix word too.
C16_FormatTwiceEqualsOnce ==
    reformatted # NoResult => reformatted = formatted

\* The three formatters that do not remove a prefix are idempotent.
OtherFormattersIdempotent ==
    (reformatted # NoResult /\ formatter # "_cleanAndFormatDate") => reformatted = formatted

(***************************************************************************)
(* Claims about the selection of the best entity (SpecSelector)            *)
(***************************************************************************)

\* The selection score of an entity of a type.
SelectionScore(entityType, e, year) ==
    CASE entityType = "PERSON" -> ScorePersonEntity(e)
      [] entityType = "EVENT" -> ScoreEventEntity(e)
      [] entityType = "LOCATION" -> ScoreLocationEntity(e)
      [] entityType = "DATE" -> ScoreDateEntity(e, year)

\* C19: for each of the four types the entity selected among the entities of
\* that type has the highest selection score, and of several entities with
\* that score it is the first in the list.
C19_FirstWithMaximumScore ==
    (selection # NoResult /\ candidates # <<>>) =>
        /\ selection # None
        /\ \A year \in Years :
               \E i \in 1..Len(candidates) :
                   /\ selection[1] = candidates[i]
                   /\ \A j \in 1..Len(candidates) :
                          SelectionScore(selectType, candidates[j], year)
                              <= SelectionScore(selectType, candidates[i], year)
                   /\ \A j \in 1..(i - 1) :
                          SelectionScore(selectType, candidates[j], year)
                              < SelectionScore(selectType, candidates[i], year)

\* Three dates: the first scores less than the two others, which have the same
\* value and confidence at different positions; the second is selected.
C19_Witness ==
    /\ selection # NoResult
    /\ selectType = "DATE"
    /\ Len(candidates) = 3
    /\ candidates[1].value # candidates[2].value
    /\ candidates[1].confidence = "LOW"
    /\ candidates[2].confidence = "LOW"
    /\ candidates[3] = [candidates[2] EXCEPT !.startPosition = 20, !.endPosition = 31]
    /\ candidates[2].startPosition = 0
    /\ selection = Some(candidates[2])

(***************************************************************************)
(* Claims about the fallback pass (SpecEngine)                             *)
(***************************************************************************)

\* The values a field holds in a call of processExtractedEntities: at
\* construction, after the primary pass and after the fallback pass.
FieldValuesOf(call, f) ==
    <<None, primaryPass[call.text][call.entities][call.year][f], call.result[f]>>

\* C20: each of the four fields changes at most once in a call of
\* processExtractedEntities: the fallback pass leaves a field that the primary
\* pass set to a non-empty value as it is, and a field it changes was unset.
C20_FallbackKeepsPrimaryFields ==
    lastCall.op = "processExtractedEntities" =>
        \A f \in FieldNames :
            LET values == FieldValuesOf(lastCall, f)
            IN /\ Truthy(values[2]) => values[3] = values[2]
               /\ values[3] # values[2] => values[2] = None
               /\ Cardinality({i \in 1..2 : values[i + 1] # values[i]}) <= 1

\* A call in which the primary pass set a field for which the fallback finds
\* another value, and left unset a field that the fallback filled.
C20_Witness ==
    /\ lastCall.op = "processExtractedEntities"
    /\ \E f \in FieldNames :
           /\ Truthy(FieldValuesOf(lastCall, f)[2])
           /\ Truthy(fallbacks[lastCall.text][f])
           /\ fallbacks[lastCall.text][f] # FieldValuesOf(lastCall, f)[2]
           /\ lastCall.result[f] = FieldValuesOf(lastCall, f)[2]
    /\ \E f \in FieldNames :
           /\ FieldValuesOf(lastCall, f)[2] = None
           /\ Truthy(lastCall.result[f])

(***************************************************************************)
(* Claims about processExtractedEntities (SpecProcessor)                   *)
(***************************************************************************)

\* The row of the aggregator's decision table for a number of filled fields
\* and an entity list.
TableRow(filledCount, list) ==
    CASE filledCount = 4 /\ 2 * TierSum(list) >= 5 * Len(list) -> "HIGH"
      [] filledCount >= 3 /\ TierSum(list) >= 2 * Len(list) -> "HIGH"
      [] filledCount >= 2 /\ 2 * TierSum(list) >= 3 * Len(list) -> "MEDIUM"
      [] filledCount >= 1 -> "LOW"
      [] OTHER -> "UNKNOWN"

\* C21: for a non-empty entity list the overallConfidence of the record that
\* processExtractedEntities returns is the decision table's row for the
\* fields as they are after the fallback pass and the list the record holds.
C21_ConfidenceOfFinalFields ==
    (infoAfter # NoResult /\ toProcess # <<>>) =>
        infoAfter[2].overallConfidence =
            TableRow(Cardinality(FilledFields(infoAfter[2])), infoAfter[2].extractedEntities)

\* The fallback pass filled a field and the confidence of the returned record
\* differs from the one calculated after the primary pass.
C21_Witness ==
    /\ infoAfter # NoResult
    /\ toProcess # <<>>
    /\ FilledFields(infoAfter[1]) # FilledFields(infoAfter[2])
    /\ infoAfter[1].overallConfidence = "LOW"
    /\ infoAfter[2].overallConfidence = "MEDIUM"

\* C22: processExtractedEntities leaves the entities as they are: the
\* extractedEntities of the record, after the primary pass and at the return,
\* is the list that was passed in, with every entity's type, value, confidence
\* and span and in the same order.
C22_EntitiesUnchanged ==
    (infoAfter # NoResult /\ toProcess # <<>>) =>
        \A k \in 1..2 :
            /\ Len(infoAfter[k].extractedEntities) = Len(toProcess)
            /\ \A i \in 1..Len(toProcess) :
                   \A a \in {"entityType", "value", "confidence", "startPosition",
                             "endPosition"} :
                       infoAfter[k].extractedEntities[i][a] = toProcess[i][a]

\* Three entities, two of them of one type and value in different tiers with
\* the better one last, one of them selected for a field and formatted.
C22_Witness ==
    /\ infoAfter # NoResult
    /\ Len(toProcess) = 3
    /\ toProcess[1].entityType = "LOCATION"
    /\ toProcess[1].confidence = "LOW"
    /\ toProcess[2].entityType = "PERSON"
    /\ toProcess[3].entityType = "LOCATION"
    /\ toProcess[3].confidence = "HIGH"
    /\ Truthy(infoAfter[2].location)
    /\ infoAfter[2].extractedEntities = toProcess

\* C29: the record processExtractedEntities returns, for an empty list or
\* not, has overallConfidence UNKNOWN exactly when none of its four fields
\* is filled; with a filled field it is LOW, MEDIUM or HIGH.
C29_UnknownIffNoField ==
    infoAfter # NoResult =>
        /\ infoAfter[2].overallConfidence = "UNKNOWN" <=> FilledFields(infoAfter[2]) = {}
        /\ FilledFields(infoAfter[2]) # {} =>
               infoAfter[2].overallConfidence \in {"LOW", "MEDIUM", "HIGH"}

\* Two MEDIUM-tier entities whose value fails validation and a text without
\* anything for the fallbacks: entities, but no field, and UNKNOWN.
C29_Witness ==
    /\ infoAfter # NoResult
    /\ Len(toProcess) = 2
    /\ \A i \in 1..2 : toProcess[i].entityType = "PERSON"
    /\ \A i \in 1..2 : toProcess[i].confidence = "MEDIUM"
    /\ FilledFields(infoAfter[2]) = {}
    /\ infoAfter[2].overallConfidence = "UNKNOWN"

\* C30: the overallConfidence calculated after the fallback pass is not lower
\* than the one calculated after the primary pass.
C30_FallbackNeverLowers ==
    infoAfter # NoResult =>
        TierRank(infoAfter[2].overallConfidence) >= TierRank(infoAfter[1].overallConfidence)

\* The primary pass filled nothing (UNKNOWN), the fallbacks filled two fields
\* and the entities' mean allows MEDIUM.
C30_Witness ==
    /\ infoAfter # NoResult
    /\ toProcess # <<>>
    /\ FilledFields(infoAfter[1]) = {}
    /\ infoAfter[1].overallConfidence = "UNKNOWN"
    /\ Cardinality(FilledFields(infoAfter[2])) = 2
    /\ infoAfter[2].overallConfidence = "MEDIUM"

(***************************************************************************)
(* Claims about the resolver's output as a subset of its input             *)
(* (SpecResolver)                                                          *)
(***************************************************************************)

\* C28: the list the resolver returns is a maximal overlap-free part of its
\* input: every entity of the input that is not in it overlaps one that is.
C28_OutputMaximal ==
    resolverCalls >= 1 =>
        \A i \in 1..Len(entities) :
            (\A j \in 1..Len(firstResult) : firstResult[j] # entities[i]) =>
                \E j \in 1..Len(firstResult) : SpansOverlap(entities[i], firstResult[j])

(***************************************************************************)
(* Claims about the service's result cache (SpecService)                   *)
(***************************************************************************)

CacheEntries(cache) == {cache[i] : i \in 1..Len(cache)}

\* When the response of an entry was built: entries are stored as soon as
\* their response is built, so this orders them by insertion.
StoredAt(entry) == entry.response.metadata.timestamp[1]

C24_CacheBounded ==
    /\ Len(resultCache) <= cacheMaxSize
    /\ serviceCall.op = "resetService" => resultCache = <<>>

\* The cache is full after more responses were stored than it has room for.
C24_Witness ==
    /\ Len(resultCache) = cacheMaxSize
    /\ metrics.totalProcessed > cacheMaxSize
    /\ serviceCall.op = "extractBatch"

\* C25: an extractInformation call of the service whose key is in the cache
\* returns the stored response and leaves the cache, the engine's metrics and
\* history and the extractor as they are; a call whose text is rejected
\* leaves the cache as it is.
C25_HitLeavesEngineAndCache ==
    [][serviceCall'.op = "extractInformation" =>
           LET key == GenerateCacheKey(serviceCall'.text, serviceCall'.templateType)
               stored == {e \in CacheEntries(resultCache) : e.key = key}
           IN /\ (ServiceValidateInput(serviceCall'.text) /\ stored # {}) =>
                     /\ \A e \in stored : serviceCall'.response = e.response
                     /\ resultCache' = resultCache
                     /\ metrics' = metrics
                     /\ processingHistory' = processingHistory
                     /\ extractorState' = extractorState
              /\ ~ServiceValidateInput(serviceCall'.text) =>
                     /\ resultCache' = resultCache
                     /\ ~serviceCall'.response.success
      ]_<<serviceCall, resultCache, metrics, processingHistory, extractorState>>

\* A request with blanks around its text was answered from the cache, with the
\* response stored for the text without them.
C25_Witness ==
    /\ serviceCall.op = "extractInformation"
    /\ serviceCall.text # Strip(serviceCall.text)
    /\ ServiceValidateInput(serviceCall.text)
    /\ lastHit = Some(GenerateCacheKey(serviceCall.text, serviceCall.templateType))
    /\ CacheLookup(resultCache, lastHit[1]) = Some(serviceCall.response)
    /\ metrics.totalProcessed = Len(resultCache)

\* The sum of the counts of a confidence distribution.
RECURSIVE CountsSum(_, _)
CountsSum(distribution, keys) ==
    IF keys = {} THEN 0
    ELSE LET key == CHOOSE k \in keys : TRUE
         IN distribution[key] + CountsSum(distribution, keys \ {key})

\* The history record of a result, as _updateMetrics appends it.
RecordOf(result) ==
    [processingTime |-> result.processingTimeMs,
     completionPercentage |-> GetCompletionPercentage(result.registrationInfo),
     confidence |-> result.registrationInfo.overallConfidence,
     successful |-> IsSuccessful(result),
     entitiesExtracted |-> Len(result.registrationInfo.extractedEntities)]

\* The last n elements of a list.
MostRecent(list, n) == SubSeq(list, Max(1, Len(list) - n + 1), Len(list))

C26_Counts ==
    /\ metrics.successfulExtractions <= metrics.totalProcessed
    /\ CountsSum(metrics.confidenceDistribution, DOMAIN metrics.confidenceDistribution)
           = metrics.totalProcessed
    /\ Len(processingHistory) = Min(metrics.totalProcessed, historyLimit)

C26_Step ==
    \/ /\ lastCall'.op = "resetMetrics"
       /\ metrics'.totalProcessed = 0
       /\ processingHistory' = <<>>
    \/ /\ lastCall'.op = "extractInformation"
       /\ lastCall'.raised = "None"
       /\ metrics'.totalProcessed = metrics.totalProcessed + 1
       /\ processingHistory' =
              MostRecent(Append(processingHistory, RecordOf(lastCall'.result)), historyLimit)

\* C26: after any sequence of engine extractInformation and resetMetrics
\* calls, successfulExtractions <= totalProcessed, the counts of the
\* confidence distribution sum to totalProcessed, and the processing history
\* holds the records of the most recent min(totalProcessed, 100) counted
\* calls, in call order: every step that changes the metrics or the history
\* is a reset that empties both, or a call whose record is appended, the
\* oldest record leaving when there are more than 100.
C26_MetricsAndHistory == []C26_Counts /\ [][C26_Step]_<<metrics, processingHistory>>

\* The history is full, more calls were counted than it keeps, some of them
\* successful and some not, and its oldest record is not the first call's.
C26_Witness ==
    /\ metrics.totalProcessed = historyLimit + 2
    /\ Len(processingHistory) = historyLimit
    /\ 0 < metrics.successfulExtractions
    /\ metrics.successfulExtractions < metrics.totalProcessed
    /\ Cardinality(DOMAIN metrics.confidenceDistribution) > 1
    /\ lastCall.op = "extractInformation"
    /\ processingHistory[historyLimit] = RecordOf(lastCall.result)

\* The call that led to the next state returned a result with error messages.
ReturnsErrorResult ==
    /\ lastCall'.op = "extractInformation"
    /\ lastCall'.raised = "None"
    /\ lastCall'.result.errorMessages # <<>>

\* C27: an engine extractInformation call that returns an error result (for
\* an empty or blank text, or after an unexpected exception) leaves the
\* metrics and the processing history as they were, and an extractInformation
\* call that changes them returned a result without error messages and is
\* counted once.
C27_ErrorResultsNotCounted ==
    [][/\ ~ReturnsErrorResult
       /\ lastCall'.op = "extractInformation" =>
              /\ lastCall'.raised = "None"
              /\ metrics'.totalProcessed = metrics.totalProcessed + 1
              /\ Len(processingHistory') = Min(Len(processingHistory) + 1, historyLimit)]_<<metrics, processingHistory>>

\* After two counted calls, one of them successful, a call with a value
\* that is not a str returned the error result of the except clause.
C27_Witness ==
    /\ lastCall.op = "extractInformation"
    /\ lastCall.raised = "None"
    /\ lastCall.result.errorMessages = <<"Extraction failed: " \o NoStripError>>
    /\ metrics.totalProcessed = 2
    /\ metrics.successfulExtractions = 1
    /\ Len(processingHistory) = 2
====
